---- MODULE Spec2Model ----
(***************************************************************************)
(* Evidence-to-prompt pipeline of topic_agent.py: the token estimator and  *)
(* the truncation primitive, the extractive summarizer, the query          *)
(* classifier, the URL collector, the prompt assembler and the             *)
(* orchestrator (process_query, main).                                     *)
(*                                                                         *)
(* Strings are modelled in two ways.  Where the content of a string        *)
(* matters (truncation, idempotence) a string is a run-length encoded      *)
(* sequence of characters, <<[c |-> "x", n |-> 404], ...>>, kept normal    *)
(* (no empty run, no two adjacent runs of the same character), so that     *)
(* equality of encodings is equality of strings.  Where only sizes matter  *)
(* (the prompt assembler, whose budgets reach 720000 characters) a string  *)
(* is its length.                                                          *)
(***************************************************************************)
EXTENDS Integers, Sequences, FiniteSets, TLC

(***************************************************************************)
(* Bounds of the model.                                                    *)
(***************************************************************************)
\* Longest input text of the truncation specification, in characters.
MaxTextLen == 460
\* Token limits tried: -MaxNegLimit .. MaxSmallLimit, and 100 .. 100 + MaxOverLimit.
MaxNegLimit == 2
MaxSmallLimit == 40
MaxOverLimit == 3
\* Most sentences of a text handed to summarize_text, and the largest
\* num_sentences tried.
MaxSent == 4
MaxN == 3
\* Most items of a conversation history, most evidence items, and most
\* items of both kinds together, handed to the prompt assembler.
MaxHist == 3
MaxSources == 2
MaxItems == 4
\* Length of the domain names of the histories tried ("a.com", "b.org").
DomainNameLen == 5

(***************************************************************************)
(* Program constants.                                                      *)
(***************************************************************************)
CharsPerToken == 4
MinFragment == 100
MarkerLen == 29
\* summarize_text: texts under 100 characters are returned as they are; the
\* fallback after a tokenizer failure keeps 500 characters.
MinSummarizeLen == 100
FallbackChars == 500
\* Token ceilings of create_question_answer and create_summary.
MAX_TOTAL_TOKENS == 180000
MAX_MEMORY_TOKENS == 20000
MAX_SOURCE_TOKENS == 100000
SUMMARY_MAX_SOURCE_TOKENS == 150000
ResponseReserve == 5000
FinalBuffer == 1000
SummaryCharCap == 500
DayMillis == 86400000
\* Lengths, in characters, of the fixed texts of the prompts.
QaSystemLen == 1010
QuestionFrameLen == 12
NoteHeadLen == 94
NoteDomainsFrameLen == 16
NoteTemporalLen == 85
NoteTailLen == 85
MemoryHeadLen == 58
PrevQuestionFrameLen == 21
PrevAnswerFrameLen == 19
RuleLen == 5
MemoryCompareLen == 209
ConvHeadLen == 21
UserFrameLen == 8
AssistantFrameLen == 13
SourcesHeadLen == 30
FullHeadLen == 50
TitleFrameLen == 8
UrlFrameLen == 6
ContentFrameLen == 11
FullImportantLen == 186
HtmlNoteLen == 266
SourceFrameLen == 9
NoSourcesLen == 100
FinalInstructionLen == 410
FinalCompareLen == 371
SummarySystemLen == 186
SummaryHeadLen == 67
SummaryNoSourcesLen == 45
SummaryClosingLen == 180

(***************************************************************************)
(* Run-length encoded strings.                                             *)
(***************************************************************************)
RECURSIVE StrLen(_)
StrLen(s) == IF s = <<>> THEN 0 ELSE Head(s).n + StrLen(Tail(s))

\* s + t
Cat(s, t) ==
    IF s = <<>> THEN t
    ELSE IF t = <<>> THEN s
    ELSE IF s[Len(s)].c = t[1].c
         THEN SubSeq(s, 1, Len(s) - 1)
              \o <<[c |-> t[1].c, n |-> s[Len(s)].n + t[1].n]>>
              \o Tail(t)
         ELSE s \o t

\* s[:k] for k >= 0
RECURSIVE Take(_, _)
Take(s, k) ==
    IF k <= 0 \/ s = <<>> THEN <<>>
    ELSE IF Head(s).n >= k THEN <<[c |-> Head(s).c, n |-> k]>>
    ELSE <<Head(s)>> \o Take(Tail(s), k - Head(s).n)

Repeat(ch, k) == IF k <= 0 THEN <<>> ELSE <<[c |-> ch, n |-> k]>>

One(ch) == [c |-> ch, n |-> 1]

\* "... [truncated due to length]"
Marker ==
    <<[c |-> ".", n |-> 3], One(" "), One("["), One("t"), One("r"), One("u"),
      One("n"), One("c"), One("a"), One("t"), One("e"), One("d"), One(" "),
      One("d"), One("u"), One("e"), One(" "), One("t"), One("o"), One(" "),
      One("l"), One("e"), One("n"), One("g"), One("t"), One("h"), One("]")>>

(***************************************************************************)
(* Exact integer arithmetic for int(len(text) * ((max_tokens * 0.9) /      *)
(* estimated_tokens)).  MulDivMod(a, b, c) is <<q, r>> with                *)
(* a * b = q * c + r and 0 <= r < c, computed bit by bit over b so that no *)
(* intermediate value leaves 32 bits.                                      *)
(***************************************************************************)
RECURSIVE MulDivMod(_, _, _)
MulDivMod(a, b, c) ==
    IF b = 0 THEN <<0, 0>>
    ELSE LET h == MulDivMod(a, b \div 2, c)
             t == 2 * h[2] + (b % 2) * (a % c)
         IN  <<2 * h[1] + (b % 2) * (a \div c) + t \div c, t % c>>

Abs(x) == IF x < 0 THEN -x ELSE x

(***************************************************************************)
(* Token estimator.                                                        *)
(***************************************************************************)
\* estimate_tokens on a string of the given length
TokensOfLen(len) == IF len = 0 THEN 0 ELSE len \div CharsPerToken

estimate_tokens(text) == TokensOfLen(StrLen(text))

\* A slip a maintainer could make: the 0.9 safety margin left out of the ratio.
target_length_no_margin(len, estimated_tokens, max_tokens, slack) ==
    LET qr == MulDivMod(len, Abs(max_tokens), estimated_tokens)
    IN  IF max_tokens < 0 THEN -qr[1] ELSE qr[1]

\* int(len(text) * ratio), ratio = (max_tokens * 0.9) / estimated_tokens.
\* int() truncates toward zero.  The quotient is computed in binary floating
\* point: when the exact value len * 9 * max_tokens / (10 * estimated_tokens)
\* is an integer, the rounded product may fall just below it, and int() then
\* yields the integer next closer to zero.  slack \in {0, 1} chooses between
\* the two outcomes; in every other case the value is the exact quotient.
target_length(len, estimated_tokens, max_tokens, slack) ==
    LET qr  == MulDivMod(len, 9 * Abs(max_tokens), 10 * estimated_tokens)
        mag == IF qr[2] = 0 /\ qr[1] > 0 /\ slack = 1 THEN qr[1] - 1 ELSE qr[1]
    IN  IF max_tokens < 0 THEN -mag ELSE mag

\* The ratio divides by estimated_tokens: a non-empty text of fewer than 4
\* characters with a negative limit raises ZeroDivisionError.
truncate_raises(len, max_tokens) ==
    /\ len > 0
    /\ TokensOfLen(len) > max_tokens
    /\ TokensOfLen(len) = 0

\* Number of characters of text kept in front of the marker, or -1 when the
\* text is returned as it is.
KeptLen(len, max_tokens, slack) ==
    IF len = 0 \/ TokensOfLen(len) <= max_tokens THEN -1
    ELSE LET tl == target_length(len, TokensOfLen(len), max_tokens, slack)
         IN  IF tl < MinFragment
             THEN (IF len < MinFragment THEN len ELSE MinFragment)
             ELSE (IF len < tl THEN len ELSE tl)

\* len(truncate_content_by_tokens(text, max_tokens)) from len(text)
TruncatedLen(len, max_tokens, slack) ==
    IF KeptLen(len, max_tokens, slack) < 0 THEN len
    ELSE KeptLen(len, max_tokens, slack) + MarkerLen

truncate_content_by_tokens(text, max_tokens, slack) ==
    IF KeptLen(StrLen(text), max_tokens, slack) < 0 THEN text
    ELSE Cat(Take(text, KeptLen(StrLen(text), max_tokens, slack)), Marker)

(***************************************************************************)
(* Extractive summarizer.  A text is [sents, len]: the sentences            *)
(* sent_tokenize splits it into, each the sequence of word tokens          *)
(* word_tokenize yields for it (already lowercased), and its length in     *)
(* characters.  The tokenizers are NLTK's; word_tokenize of the whole text *)
(* is taken to be the concatenation of the sentences' tokens.              *)
(***************************************************************************)
StopWords == {"the"}

IsAlnum(w) == w \in {"a", "b", "the"}

RECURSIVE Flatten(_)
Flatten(ss) == IF ss = <<>> THEN <<>> ELSE Head(ss) \o Flatten(Tail(ss))

\* [word for word in word_tokens if word.isalnum() and word not in stop_words]
ContentWords(tokens) ==
    SelectSeq(tokens, LAMBDA w : IsAlnum(w) /\ w \notin StopWords)

Count(w, tokens) == Len(SelectSeq(tokens, LAMBDA v : v = w))

\* FreqDist(word_tokens): the words it holds and how often each occurs
FreqDist(tokens) ==
    [w \in {tokens[i] : i \in 1 .. Len(tokens)} |-> Count(w, tokens)]

RECURSIVE SumFreq(_, _)
SumFreq(freq, words) ==
    IF words = <<>> THEN 0
    ELSE (IF Head(words) \in DOMAIN freq THEN freq[Head(words)] ELSE 0)
         + SumFreq(freq, Tail(words))

\* sentence_scores: only a sentence with a word of freq_dist gets an entry
sentence_scores(sents, freq) ==
    [i \in {j \in 1 .. Len(sents) :
                \E k \in 1 .. Len(sents[j]) : sents[j][k] \in DOMAIN freq}
        |-> SumFreq(freq, sents[i])]

\* The items of scores in decreasing score, equal scores in the order of
\* the iterable (here increasing sentence position, the dict's insertion
\* order); the first n of them.
RECURSIVE TopRanked(_, _)
TopRanked(n, scores) ==
    IF n <= 0 \/ DOMAIN scores = {} THEN <<>>
    ELSE LET best == CHOOSE i \in DOMAIN scores :
                         \A j \in DOMAIN scores :
                             \/ scores[i] > scores[j]
                             \/ (scores[i] = scores[j] /\ i <= j)
             rest == [j \in DOMAIN scores \ {best} |-> scores[j]]
         IN  <<best>> \o TopRanked(n - 1, rest)

\* A slip: one item too many taken from the heap.
nlargest_one_more(n, scores) == TopRanked(n + 1, scores)

\* A slip: the first n items of the dict taken, whatever their scores.
nlargest_unranked(n, scores) ==
    LET before(i) == Cardinality({j \in DOMAIN scores : j < i})
        count     == IF n < Cardinality(DOMAIN scores) THEN n
                     ELSE Cardinality(DOMAIN scores)
    IN  [k \in 1 .. count |-> CHOOSE i \in DOMAIN scores : before(i) = k - 1]

\* heapq.nlargest(n, sentence_scores.items(), key=lambda x: x[1])
nlargest(n, scores) == TopRanked(n, scores)

\* A slip: the selection left in score order.
sorted_by_index_skipped(idx) == idx

\* sorted(top_sentences, key=lambda x: x[0])
RECURSIVE sorted_by_index(_)
sorted_by_index(idx) ==
    IF idx = <<>> THEN <<>>
    ELSE LET lo == CHOOSE k \in 1 .. Len(idx) :
                       \A m \in 1 .. Len(idx) : idx[k] <= idx[m]
         IN  <<idx[lo]>>
             \o sorted_by_index(SubSeq(idx, 1, lo - 1)
                                \o SubSeq(idx, lo + 1, Len(idx)))

\* The three shapes of summarize_text's result: the text itself, sentences
\* of it joined by a space (by position), or its first 500 characters
\* followed by "...".
Verbatim(text) ==
    [kind |-> "text", idx |-> [i \in 1 .. Len(text.sents) |-> i]]

Joined(idx) == [kind |-> "sentences", idx |-> idx]

Prefix500 == [kind |-> "prefix", idx |-> <<>>]

\* A slip: < for <= in the test that nothing needs compressing.
few_enough_strict(count, num_sentences) == count < num_sentences

\* len(sentences) <= num_sentences
few_enough(count, num_sentences) == count <= num_sentences

summarize_text(text, num_sentences, tokenizer_ok) ==
    IF text.len = 0 \/ text.len < MinSummarizeLen THEN Verbatim(text)
    ELSE IF ~tokenizer_ok
         THEN (IF text.len > FallbackChars THEN Prefix500 ELSE Verbatim(text))
    ELSE IF few_enough(Len(text.sents), num_sentences) THEN Verbatim(text)
    ELSE LET freq   == FreqDist(ContentWords(Flatten(text.sents)))
             scores == sentence_scores(text.sents, freq)
         IN  IF DOMAIN scores = {}
             THEN Joined([i \in 1 .. num_sentences |-> i])
             ELSE Joined(sorted_by_index(nlargest(num_sentences, scores)))

(***************************************************************************)
(* Prompt assembler, on lengths.  A history item is                        *)
(* [role, content, blank, isMemory, domain, timestamp]: content is the     *)
(* length of item['content'], blank says content.strip() is empty, domain  *)
(* is item['source']['domain'] ("" when the item has no source or no       *)
(* domain), timestamp is item['source']['timestamp'] in milliseconds       *)
(* (0 when absent).  An evidence item is                                   *)
(* [title, url, summary, is_full_content, has_html] with title, url and    *)
(* summary the lengths of these strings.                                   *)
(***************************************************************************)
RECURSIVE SumSeq(_)
SumSeq(q) == IF q = <<>> THEN 0 ELSE Head(q) + SumSeq(Tail(q))

Min(a, b) == IF a < b THEN a ELSE b

\* len(str(idx))
RECURSIVE DecimalDigits(_)
DecimalDigits(k) == IF k < 10 THEN 1 ELSE 1 + DecimalDigits(k \div 10)

\* Python's floor division by a positive divisor
FloorDiv(a, b) == IF a >= 0 THEN a \div b ELSE -((-a + b - 1) \div b)

\* The first pass over conversation_history: items with blank content are
\* skipped; memory_items and current_conversation keep role and content only.
memory_items(history) ==
    LET kept == SelectSeq(history, LAMBDA h : ~h.blank /\ h.isMemory)
    IN  [i \in 1 .. Len(kept) |->
            [role |-> kept[i].role, content |-> kept[i].content]]

current_conversation(history) ==
    SelectSeq(history, LAMBDA h : ~h.blank /\ ~h.isMemory)

memory_domains(history) ==
    {history[i].domain : i \in {j \in 1 .. Len(history) :
        ~history[j].blank /\ history[j].isMemory /\ history[j].domain # ""}}

memory_timestamps(history) ==
    {history[i].timestamp : i \in {j \in 1 .. Len(history) :
        ~history[j].blank /\ history[j].isMemory /\ history[j].timestamp # 0}}

has_multiple_sources(history) == Cardinality(memory_domains(history)) > 1

\* len(memory_timestamps) > 1 and max - min > 24 hours
has_temporal_differences(history) ==
    /\ Len(SelectSeq(history, LAMBDA h :
            ~h.blank /\ h.isMemory /\ h.timestamp # 0)) > 1
    /\ \E a, b \in memory_timestamps(history) : a - b > DayMillis

\* len(comparison_note), 0 when the note is not added
comparison_note_len(history, is_comparison) ==
    IF is_comparison /\ has_multiple_sources(history)
    THEN NoteHeadLen + NoteDomainsFrameLen
         + DomainNameLen * Cardinality(memory_domains(history))
         + 2 * (Cardinality(memory_domains(history)) - 1)
         + (IF has_temporal_differences(history) THEN NoteTemporalLen ELSE 0)
         + NoteTailLen
    ELSE 0

\* item.get('source', {}).get('domain', '') of an item of memory_items
item_domain(item) ==
    IF "domain" \in DOMAIN item THEN item.domain ELSE ""

\* the keys of domain_groups: the domains of the answers in memory_items
domain_groups(items) ==
    {item_domain(items[i]) : i \in {j \in 1 .. Len(items) :
        item_domain(items[j]) # "" /\ items[j].role = "assistant"}}

\* How the memory listing is laid out: "grouped" when the block "MEMORY
\* GROUPED BY SOURCE" is written, "flat" when every item is listed as a
\* previous question or answer in history order, "none" without memory
memory_layout(history, is_comparison) ==
    LET items == memory_items(history)
    IN  IF items = <<>> THEN "none"
        ELSE IF Cardinality(domain_groups(items)) > 1 /\ is_comparison
        THEN "grouped"
        ELSE "flat"

\* One line of the memory listing.  memory_items holds role and content
\* only, so every item is "ungrouped" (its domain reads as '').
memory_line_len(h) ==
    IF h.role = "user" THEN PrevQuestionFrameLen + h.content
    ELSE IF h.role = "assistant" THEN PrevAnswerFrameLen + h.content
    ELSE 0

\* len(memory_content) before the token check
memory_content_len(history, is_comparison) ==
    LET items == memory_items(history)
    IN  MemoryHeadLen
        + SumSeq([i \in 1 .. Len(items) |-> memory_line_len(items[i])])
        + RuleLen
        + (IF is_comparison /\ has_multiple_sources(history)
           THEN MemoryCompareLen ELSE 0)

conversation_line_len(h) ==
    IF h.role = "user" THEN UserFrameLen + h.content
    ELSE IF h.role = "assistant" THEN AssistantFrameLen + h.content
    ELSE 0

\* len(conv_content) before the token check
conv_content_len(history) ==
    LET items == current_conversation(history)
    IN  ConvHeadLen
        + SumSeq([i \in 1 .. Len(items) |-> conversation_line_len(items[i])])
        + RuleLen

has_full_content(summaries) ==
    \E i \in 1 .. Len(summaries) : summaries[i].is_full_content

\* tokens_per_source of create_question_answer, from the tokens counted so far
tokens_per_source(summaries, current_token_count) ==
    LET available == Min(MAX_SOURCE_TOKENS,
                         MAX_TOTAL_TOKENS - current_token_count
                         - TokensOfLen(SourcesHeadLen) - ResponseReserve)
        sharers   == IF has_full_content(summaries)
                     THEN Len(SelectSeq(summaries,
                                        LAMBDA x : x.is_full_content))
                     ELSE Len(summaries)
    IN  FloorDiv(available, sharers)

\* A slip: the summarized items written beside the full ones.
source_limit_none_omitted(src, any_full, tps) ==
    IF any_full /\ src.is_full_content
    THEN IF TokensOfLen(src.summary) > tps
         THEN [op |-> "cut", max |-> tps]
         ELSE [op |-> "keep", max |-> 0]
    ELSE IF TokensOfLen(src.summary) > tps \/ src.summary > SummaryCharCap
         THEN [op |-> "cut", max |-> Min(tps, TokensOfLen(SummaryCharCap))]
         ELSE [op |-> "keep", max |-> 0]

\* The limit handed to truncate for source i, or "keep" when its content is
\* written as it is, or "omit" when the source is left out of the prompt.
source_limit(src, any_full, tps) ==
    IF any_full
    THEN IF ~src.is_full_content THEN [op |-> "omit", max |-> 0]
         ELSE IF TokensOfLen(src.summary) > tps
              THEN [op |-> "cut", max |-> tps]
              ELSE [op |-> "keep", max |-> 0]
    ELSE IF TokensOfLen(src.summary) > tps \/ src.summary > SummaryCharCap
         THEN [op |-> "cut", max |-> Min(tps, TokensOfLen(SummaryCharCap))]
         ELSE [op |-> "keep", max |-> 0]

\* Length of the content text written for a source: -1 when omitted
source_content_len(src, any_full, tps, slack) ==
    LET lim == source_limit(src, any_full, tps)
    IN  IF lim.op = "omit" THEN -1
        ELSE IF lim.op = "keep" THEN src.summary
        ELSE TruncatedLen(src.summary, lim.max, slack)

source_raises(src, any_full, tps) ==
    LET lim == source_limit(src, any_full, tps)
    IN  lim.op = "cut" /\ truncate_raises(src.summary, lim.max)

\* Length of the block written for source idx given its content length
source_block_len(src, idx, any_full, content) ==
    IF content < 0 THEN 0
    ELSE IF any_full
    THEN TitleFrameLen + src.title + UrlFrameLen + src.url
         + ContentFrameLen + content + FullImportantLen
         + (IF src.has_html THEN HtmlNoteLen ELSE 0)
    ELSE SourceFrameLen + DecimalDigits(idx) + TitleFrameLen + src.title
         + UrlFrameLen + src.url + ContentFrameLen + content

\* len(sources_section) from the content lengths written
sources_section_len(summaries, contents) ==
    SourcesHeadLen
    + (IF summaries = <<>> THEN NoSourcesLen
       ELSE (IF has_full_content(summaries) THEN FullHeadLen ELSE 0)
            + SumSeq([i \in 1 .. Len(summaries) |->
                  source_block_len(summaries[i], i,
                                   has_full_content(summaries), contents[i])]))

final_instruction_len(is_comparison) ==
    FinalInstructionLen + (IF is_comparison THEN FinalCompareLen ELSE 0)

\* A slip: the final check left out.
final_user_prompt_len_unchecked(system_len, user_len, slack) == user_len

\* The final token check of both builders: len(user_prompt) after it
final_user_prompt_len(system_len, user_len, slack) ==
    IF TokensOfLen(system_len) + TokensOfLen(user_len) > MAX_TOTAL_TOKENS
    THEN TruncatedLen(user_len,
                      MAX_TOTAL_TOKENS - TokensOfLen(system_len) - FinalBuffer,
                      slack)
    ELSE user_len

\* create_summary: the content text written for a source
summary_source_content_len(src, count, slack) ==
    LET tps == SUMMARY_MAX_SOURCE_TOKENS \div count
    IN  IF TokensOfLen(src.summary) > tps
        THEN TruncatedLen(src.summary, tps, slack)
        ELSE IF src.summary > SummaryCharCap THEN SummaryCharCap
        ELSE src.summary

summary_sources_len(summaries, contents) ==
    IF summaries = <<>> THEN SummaryNoSourcesLen
    ELSE SumSeq([i \in 1 .. Len(summaries) |->
             SourceFrameLen + DecimalDigits(i) + TitleFrameLen
             + summaries[i].title + UrlFrameLen + summaries[i].url
             + ContentFrameLen + contents[i]])

(***************************************************************************)
(* State.                                                                  *)
(***************************************************************************)
VARIABLES
    tr_pc,      \* truncation harness: "call", "again", "done"
    tr_text,    \* the text handed to truncate_content_by_tokens
    tr_max,     \* max_tokens
    tr_out,     \* [exc, value]: result of truncate(text, max)
    tr_out2,    \* [exc, value]: result of truncate(truncate(text, max), max)
    sm_pc,      \* summarizer harness: "call", "done"
    sm_text,    \* [sents, len]: the text handed to summarize_text
    sm_n,       \* num_sentences
    sm_tok_ok,  \* whether NLTK's tokenizers work (FALSE: sent_tokenize raises)
    sm_out,     \* [kind, idx]: what summarize_text returned
    as_pc,      \* prompt builder: "memory", "conversation", "sources",
                \* "final", "llm", "done", "raised"
    as_in,      \* [kind, query, comparison, history, summaries]: arguments
    as_st,      \* [count, memory, conversation, contents, sources, tps,
                \*  cut, layout]: what the builder has computed so far
    as_prompt,  \* [system, user]: lengths of the prompt handed to the LLM
    as_result,  \* [success, summaries]: what the builder returned
    m_pc,       \* main: "read", "check", "construct", "dispatch", "call",
                \* "print", "except", "exit" ("idle": main is not running)
    request,    \* [stdin, action]: what main read
    context,    \* [selected_provider, browser_api_keys]
    model_info, \* main's model_info
    agent,      \* whether TopicAgent() has been constructed
    m_result,   \* main's result
    stdout,     \* the results printed
    calls,      \* the outside interactions so far, in order
    pq,         \* process_query: arguments, locals and position
    pu,         \* process_urls: [pc, urls, i, summaries]
    tx_pc,      \* query classifiers: "question", "comparison", "done"
    tx_query,   \* the query handed to is_question and _is_comparison_query
    tx_out      \* [question, comparison]: what the two returned

tr_vars == <<tr_pc, tr_text, tr_max, tr_out, tr_out2>>

sm_vars == <<sm_pc, sm_text, sm_n, sm_tok_ok, sm_out>>

as_vars == <<as_pc, as_in, as_st, as_prompt, as_result>>

pl_vars ==
    <<m_pc, request, context, model_info, agent, m_result, stdout, calls,
      pq, pu>>

tx_vars == <<tx_pc, tx_query, tx_out>>

main_vars == <<m_pc, request, context, model_info, agent, m_result, stdout>>

vars == <<tr_pc, tr_text, tr_max, tr_out, tr_out2,
          sm_pc, sm_text, sm_n, sm_tok_ok, sm_out,
          as_pc, as_in, as_st, as_prompt, as_result,
          m_pc, request, context, model_info, agent, m_result, stdout,
          calls, pq, pu,
          tx_pc, tx_query, tx_out>>

NoResult == [exc |-> "unset", value |-> <<>>]

Returned(v) == [exc |-> "none", value |-> v]

Raised(e) == [exc |-> e, value |-> <<>>]

(***************************************************************************)
(* Truncation harness: truncate_content_by_tokens applied once and then    *)
(* again to its own result; summarizer harness: one call of                *)
(* summarize_text.                                                         *)
(***************************************************************************)
TruncLimits ==
    ((0 - MaxNegLimit) .. MaxSmallLimit) \cup (100 .. (100 + MaxOverLimit))

TruncTexts == {Repeat("x", k) : k \in 0 .. MaxTextLen}

CallTruncate(text, max_tokens, slack) ==
    IF truncate_raises(StrLen(text), max_tokens)
    THEN Raised("ZeroDivisionError")
    ELSE Returned(truncate_content_by_tokens(text, max_tokens, slack))

TrStart ==
    /\ tr_pc = "call"
    /\ tr_text \in TruncTexts
    /\ tr_max \in TruncLimits
    /\ tr_out = NoResult
    /\ tr_out2 = NoResult

TrIdle ==
    /\ tr_pc = "idle"
    /\ tr_text = <<>>
    /\ tr_max = 0
    /\ tr_out = NoResult
    /\ tr_out2 = NoResult

\* Sentences as word_tokenize sees them: a stopword only, one content word,
\* two content words, a repeated content word beside a stopword.
SentenceKinds ==
    { <<"the", ".">>, <<"a", ".">>, <<"b", ".">>, <<"a", "b", ".">>,
      <<"b", "b", "the", ".">> }

SummarizeTexts ==
    { [sents |-> ss, len |-> l] :
        ss \in UNION {[1 .. k -> SentenceKinds] : k \in 1 .. MaxSent},
        l \in {MinSummarizeLen - 1, MinSummarizeLen, FallbackChars + 1} }

NoSummary == [kind |-> "unset", idx |-> <<>>]

SmStart ==
    /\ sm_pc = "call"
    /\ sm_text \in SummarizeTexts
    /\ sm_n \in 1 .. MaxN
    /\ sm_tok_ok \in BOOLEAN
    /\ sm_out = NoSummary

SmIdle ==
    /\ sm_pc = "idle"
    /\ sm_text = [sents |-> <<>>, len |-> 0]
    /\ sm_n = 0
    /\ sm_tok_ok = TRUE
    /\ sm_out = NoSummary

Summarize ==
    /\ sm_pc = "call"
    /\ sm_out' = summarize_text(sm_text, sm_n, sm_tok_ok)
    /\ sm_pc' = "done"
    /\ UNCHANGED <<sm_text, sm_n, sm_tok_ok>>
    /\ UNCHANGED <<tr_vars, as_vars, pl_vars, tx_vars>>

TruncateOnce ==
    /\ tr_pc = "call"
    /\ \E slack \in {0, 1} :
           tr_out' = CallTruncate(tr_text, tr_max, slack)
    /\ tr_pc' = IF tr_out'.exc = "none" THEN "again" ELSE "done"
    /\ UNCHANGED <<tr_text, tr_max, tr_out2>>
    /\ UNCHANGED <<sm_vars, as_vars, pl_vars, tx_vars>>

TruncateAgain ==
    /\ tr_pc = "again"
    /\ \E slack \in {0, 1} :
           tr_out2' = CallTruncate(tr_out.value, tr_max, slack)
    /\ tr_pc' = "done"
    /\ UNCHANGED <<tr_text, tr_max, tr_out>>
    /\ UNCHANGED <<sm_vars, as_vars, pl_vars, tx_vars>>

(***************************************************************************)
(* Prompt builders: create_question_answer and create_summary, one action  *)
(* per section of the prompt.                                              *)
(***************************************************************************)
\* Sizes tried for a query, a history item's content and an evidence body:
\* a few words, a page, texts beyond the ceilings, and a remembered answer
\* that brings the memory listing to just under the memory ceiling.
HistoryItems ==
    { [role |-> "user", content |-> 40, blank |-> FALSE, isMemory |-> TRUE,
       domain |-> "", timestamp |-> 0],
      [role |-> "assistant", content |-> 400, blank |-> FALSE,
       isMemory |-> TRUE, domain |-> "a.com", timestamp |-> 1000],
      [role |-> "assistant", content |-> 90000, blank |-> FALSE,
       isMemory |-> TRUE, domain |-> "b.org", timestamp |-> 172900000],
      [role |-> "assistant", content |-> 79200, blank |-> FALSE,
       isMemory |-> TRUE, domain |-> "b.org", timestamp |-> 172900000],
      [role |-> "assistant", content |-> 90000, blank |-> FALSE,
       isMemory |-> FALSE, domain |-> "", timestamp |-> 0],
      [role |-> "user", content |-> 3, blank |-> TRUE, isMemory |-> FALSE,
       domain |-> "", timestamp |-> 0] }

EvidenceItems ==
    { [title |-> 20, url |-> 30, summary |-> 2, is_full_content |-> FALSE,
       has_html |-> FALSE],
      [title |-> 20, url |-> 30, summary |-> 600, is_full_content |-> FALSE,
       has_html |-> FALSE],
      [title |-> 20, url |-> 30, summary |-> SummaryCharCap + 2,
       is_full_content |-> FALSE, has_html |-> FALSE],
      [title |-> 20, url |-> 30, summary |-> 300, is_full_content |-> TRUE,
       has_html |-> TRUE],
      [title |-> 20, url |-> 30, summary |-> 450000,
       is_full_content |-> TRUE, has_html |-> FALSE] }

\* a short query, one that leaves 17 tokens for the sources, and one that
\* is over the total ceiling by itself
QueryLens == {20, 698884, 800000}

Histories == UNION {[1 .. k -> HistoryItems] : k \in 0 .. MaxHist}

EvidenceLists == UNION {[1 .. k -> EvidenceItems] : k \in 0 .. MaxSources}

NoPrompt == [system |-> 0, user |-> 0]

NoAnswer == [success |-> FALSE, summaries |-> <<>>]

\* State of a builder at entry: the system prompt and the first line of the
\* user prompt are counted.
BuilderStart(kind, query) ==
    [count |-> IF kind = "qa"
               THEN TokensOfLen(QaSystemLen)
                    + TokensOfLen(QuestionFrameLen + query)
               ELSE 0,
     memory |-> 0, conversation |-> 0, contents |-> <<>>, sources |-> 0,
     tps |-> 0, cut |-> FALSE, layout |-> "none"]

AsStart ==
    /\ as_in \in [kind : {"qa", "summary"}, query : QueryLens,
                  comparison : BOOLEAN, history : Histories,
                  summaries : EvidenceLists]
    /\ Len(as_in.history) + Len(as_in.summaries) <= MaxItems
    \* the query that leaves 17 tokens is tried without a history: with
    \* one it leaves nothing, as the longest query does
    /\ as_in.query = 698884 => as_in.history = <<>>
    \* a summary just over 500 characters is tried with the short query and
    \* without a history
    /\ (\E i \in 1 .. Len(as_in.summaries) :
           as_in.summaries[i].summary = SummaryCharCap + 2)
          => (as_in.query = 20 /\ as_in.history = <<>>)
    \* create_summary takes neither a history nor a comparison reading
    /\ as_in.kind = "summary" => (as_in.history = <<>> /\ ~as_in.comparison)
    /\ as_pc = IF as_in.kind = "qa" THEN "memory" ELSE "sources"
    /\ as_st = BuilderStart(as_in.kind, as_in.query)
    /\ as_prompt = NoPrompt
    /\ as_result = NoAnswer

AsIdle ==
    /\ as_pc = "idle"
    /\ as_in = [kind |-> "none", query |-> 0, comparison |-> FALSE,
                history |-> <<>>, summaries |-> <<>>]
    /\ as_st = BuilderStart("none", 0)
    /\ as_prompt = NoPrompt
    /\ as_result = NoAnswer

AsOthersIdle == UNCHANGED <<tr_vars, sm_vars, pl_vars, tx_vars>>

\* The sequences that take their i-th element from the i-th set: every way
\* the float roundings of the separate truncate calls can fall.
RECURSIVE PickEach(_)
PickEach(sets) ==
    IF sets = <<>> THEN {<<>>}
    ELSE {<<x>> \o rest : x \in Head(sets), rest \in PickEach(Tail(sets))}

\* create_question_answer, lines 547-632: the comparison note and the
\* memory listing, cut to the memory ceiling.
AssembleMemory ==
    /\ as_pc = "memory"
    /\ \E slack \in {0, 1} :
        LET note == comparison_note_len(as_in.history, as_in.comparison)
            raw  == memory_content_len(as_in.history, as_in.comparison)
            kept == IF TokensOfLen(raw) > MAX_MEMORY_TOKENS
                    THEN TruncatedLen(raw, MAX_MEMORY_TOKENS, slack)
                    ELSE raw
        IN  IF memory_items(as_in.history) = <<>>
            THEN as_st' = [as_st EXCEPT !.memory = note]
            ELSE as_st' = [as_st EXCEPT
                              !.memory = note + kept,
                              !.count = @ + TokensOfLen(kept),
                              !.layout = memory_layout(as_in.history,
                                                       as_in.comparison)]
    /\ as_pc' = "conversation"
    /\ UNCHANGED <<as_in, as_prompt, as_result>>
    /\ AsOthersIdle

\* lines 634-658: the live conversation, cut to what the memory section
\* left of the memory ceiling.
AssembleConversation ==
    /\ as_pc = "conversation"
    /\ \E slack \in {0, 1} :
        LET raw       == conv_content_len(as_in.history)
            remaining == MAX_MEMORY_TOKENS - TokensOfLen(as_st.memory)
            kept      == IF TokensOfLen(raw) > remaining
                         THEN TruncatedLen(raw, remaining, slack)
                         ELSE raw
        IN  IF current_conversation(as_in.history) = <<>>
            THEN as_st' = as_st
            ELSE as_st' = [as_st EXCEPT !.conversation = kept,
                                        !.count = @ + TokensOfLen(kept)]
    /\ as_pc' = "sources"
    /\ UNCHANGED <<as_in, as_prompt, as_result>>
    /\ AsOthersIdle

\* lines 660-736: the sources section.  A truncate call that raises leaves
\* create_question_answer with the exception.
AssembleSources ==
    /\ as_pc = "sources"
    /\ as_in.kind = "qa"
    /\ LET srcs == as_in.summaries
           full == has_full_content(srcs)
           tps  == IF srcs = <<>> THEN 0
                   ELSE tokens_per_source(srcs, as_st.count)
       IN  IF \E i \in 1 .. Len(srcs) : source_raises(srcs[i], full, tps)
           THEN /\ as_pc' = "raised"
                /\ as_st' = [as_st EXCEPT !.tps = tps]
           ELSE /\ \E contents \in PickEach([i \in 1 .. Len(srcs) |->
                        {source_content_len(srcs[i], full, tps, slack) :
                            slack \in {0, 1}}]) :
                    LET section == sources_section_len(srcs, contents)
                    IN  as_st' = [as_st EXCEPT
                                    !.tps = tps,
                                    !.contents = contents,
                                    !.sources = section,
                                    !.count = @ + TokensOfLen(section)]
                /\ as_pc' = "final"
    /\ UNCHANGED <<as_in, as_prompt, as_result>>
    /\ AsOthersIdle

\* create_summary, lines 857-885: the sources of the summary prompt.
SummarySources ==
    /\ as_pc = "sources"
    /\ as_in.kind = "summary"
    /\ LET srcs == as_in.summaries
       IN  \E contents \in PickEach([i \in 1 .. Len(srcs) |->
                   {summary_source_content_len(srcs[i], Len(srcs), slack) :
                       slack \in {0, 1}}]) :
               as_st' = [as_st EXCEPT
                           !.tps = IF srcs = <<>> THEN 0
                                   ELSE SUMMARY_MAX_SOURCE_TOKENS
                                        \div Len(srcs),
                           !.contents = contents,
                           !.sources = summary_sources_len(srcs, contents)]
    /\ as_pc' = "final"
    /\ UNCHANGED <<as_in, as_prompt, as_result>>
    /\ AsOthersIdle

\* len(user_prompt) before the final check
user_prompt_len ==
    IF as_in.kind = "qa"
    THEN QuestionFrameLen + as_in.query + as_st.memory + as_st.conversation
         + as_st.sources + final_instruction_len(as_in.comparison)
    ELSE SummaryHeadLen + as_in.query + as_st.sources + SummaryClosingLen

system_prompt_len == IF as_in.kind = "qa" THEN QaSystemLen ELSE SummarySystemLen

\* lines 757-778 and 893-910: the sections are joined, the final token check
\* is applied and the prompt is handed to generate_llm_response.
FinalCheck ==
    /\ as_pc = "final"
    /\ \E slack \in {0, 1} :
        LET user == final_user_prompt_len(system_prompt_len, user_prompt_len,
                                          slack)
        IN  /\ as_prompt' = [system |-> system_prompt_len, user |-> user]
            /\ as_st' = [as_st EXCEPT !.cut = (user # user_prompt_len)]
    /\ as_pc' = "llm"
    /\ UNCHANGED <<as_in, as_result>>
    /\ AsOthersIdle

\* generate_llm_response returns; the builder returns (success, result) with
\* the evidence list it was given.
BuilderReturns ==
    /\ as_pc = "llm"
    /\ \E ok \in BOOLEAN :
           as_result' = [success |-> ok, summaries |-> as_in.summaries]
    /\ as_pc' = "done"
    /\ UNCHANGED <<as_in, as_st, as_prompt>>
    /\ AsOthersIdle

(***************************************************************************)
(* The request pipeline: main, process_query and process_urls.             *)
(*                                                                         *)
(* A query is the sequence of its characters, so that is_question reads    *)
(* the text itself.  Bodies of pages and contexts are their lengths; an    *)
(* evidence item records where it came from and how it was built.  The     *)
(* outside world (page fetches, the search page, the LLM provider, the     *)
(* NLTK data download) answers nondeterministically, and every such        *)
(* interaction is appended to the log "calls".  The text of the cleaned    *)
(* query, titles and answers is not represented.                           *)
(***************************************************************************)
\* Bounds of the pipeline's inputs
MaxUrls == 4

\* Constants of the program
MaxSummaries == 3

MinContextBody == 50

MinPageBody == 200

SearchCap == 5

UpperCase ==
    <<"A", "B", "C", "D", "E", "F", "G", "H", "I", "J", "K", "L", "M",
      "N", "O", "P", "Q", "R", "S", "T", "U", "V", "W", "X", "Y", "Z">>

LowerCase ==
    <<"a", "b", "c", "d", "e", "f", "g", "h", "i", "j", "k", "l", "m",
      "n", "o", "p", "q", "r", "s", "t", "u", "v", "w", "x", "y", "z">>

lower_char(c) ==
    IF \E i \in 1 .. Len(UpperCase) : UpperCase[i] = c
    THEN LowerCase[CHOOSE i \in 1 .. Len(UpperCase) : UpperCase[i] = c]
    ELSE c

\* str.lower()
lower(s) == [i \in 1 .. Len(s) |-> lower_char(s[i])]

isspace(c) == c \in {" ", "\t", "\n"}

\* str.startswith(p)
startswith(s, p) == Len(s) >= Len(p) /\ SubSeq(s, 1, Len(p)) = p

\* str.endswith(p)
endswith(s, p) ==
    Len(s) >= Len(p) /\ SubSeq(s, Len(s) - Len(p) + 1, Len(s)) = p

\* p in s
contains(s, p) ==
    \E i \in 1 .. (Len(s) - Len(p) + 1) : SubSeq(s, i, i + Len(p) - 1) = p

\* str.strip()
strip(s) ==
    LET kept == {i \in 1 .. Len(s) : ~isspace(s[i])}
    IN  IF kept = {} THEN <<>>
        ELSE SubSeq(s, CHOOSE i \in kept : \A j \in kept : i <= j,
                       CHOOSE i \in kept : \A j \in kept : j <= i)

\* str.split(): the maximal runs of non-whitespace characters
RECURSIVE split(_)
split(s) ==
    IF s = <<>> THEN <<>>
    ELSE IF isspace(s[1]) THEN split(Tail(s))
    ELSE LET stops == {i \in 1 .. Len(s) : isspace(s[i])}
             n     == IF stops = {} THEN Len(s)
                      ELSE (CHOOSE i \in stops : \A j \in stops : i <= j) - 1
         IN  <<SubSeq(s, 1, n)>> \o split(SubSeq(s, n + 1, Len(s)))

HttpPrefix ==
    <<"h", "t", "t", "p", ":", "/", "/">>

HttpsPrefix ==
    <<"h", "t", "t", "p", "s", ":", "/", "/">>

DirectMarker ==
    <<"D", "I", "R", "E", "C", "T", " ", "Q", "U", "E", "S", "T", "I", "O",
      "N", ":">>

QuestionMark ==
    <<"?">>

question_words ==
    { <<"w", "h", "o">>,
      <<"w", "h", "a", "t">>,
      <<"w", "h", "e", "n">>,
      <<"w", "h", "e", "r", "e">>,
      <<"w", "h", "y">>,
      <<"h", "o", "w">>,
      <<"d", "i", "d">>,
      <<"d", "o">>,
      <<"d", "o", "e", "s">>,
      <<"i", "s">>,
      <<"a", "r", "e">>,
      <<"w", "a", "s">>,
      <<"w", "e", "r", "e">> }

\* is_question looking for the interrogative words in the query as typed
is_question_as_typed(query) ==
    IF startswith(query, HttpPrefix) \/ startswith(query, HttpsPrefix)
    THEN FALSE
    ELSE IF contains(query, DirectMarker)
            \/ endswith(strip(query), QuestionMark)
    THEN TRUE
    ELSE LET words == split(query)
         IN  \E i \in 1 .. Len(words) : words[i] \in question_words

\* is_question(query): a URL is never a question; otherwise the marker, a
\* trailing question mark or an interrogative word makes one.
is_question(query) ==
    IF startswith(query, HttpPrefix) \/ startswith(query, HttpsPrefix)
    THEN FALSE
    ELSE IF contains(query, DirectMarker)
            \/ endswith(strip(query), QuestionMark)
    THEN TRUE
    ELSE LET words == split(lower(query))
         IN  \E i \in 1 .. Len(words) : words[i] \in question_words

\* Regular expressions of _is_comparison_query, matched as re.search does
Digits == {"0", "1", "2", "3", "4", "5", "6", "7", "8", "9"}

\* \w
isword(c) ==
    \/ \E i \in 1 .. Len(LowerCase) : LowerCase[i] = c \/ UpperCase[i] = c
    \/ c \in Digits \cup {"_"}

\* \b between s[k] and s[k + 1]; the ends of s count as non-word
boundary(s, k) ==
    (k >= 1 /\ k <= Len(s) /\ isword(s[k]))
        # (k + 1 >= 1 /\ k + 1 <= Len(s) /\ isword(s[k + 1]))

\* s[i .. j] is whitespace (\s* when i = j + 1)
spaces(s, i, j) == \A k \in i .. j : isspace(s[k])

\* s[i .. j] has no line break, as "." requires
dots(s, i, j) == \A k \in i .. j : s[k] # "\n"

\* p occurs in s from position i on
at(s, i, p) ==
    i >= 1 /\ i + Len(p) - 1 <= Len(s) /\ SubSeq(s, i, i + Len(p) - 1) = p

W_or == <<"o", "r">>

W_and == <<"a", "n", "d">>

W_between == <<"b", "e", "t", "w", "e", "e", "n">>

W_among == <<"a", "m", "o", "n", "g">>

W_are == <<"a", "r", "e">>

W_is == <<"i", "s">>

W_comma == <<",">>

\* \b\w+\s+or\s+\w+\b
or_pattern(s) ==
    \E a \in 1 .. Len(s) :
       /\ isword(s[a])
       /\ \E b \in a + 2 .. Len(s) :
             /\ spaces(s, a + 1, b - 1)
             /\ at(s, b, W_or)
             /\ \E c \in b + 3 .. Len(s) :
                   spaces(s, b + 2, c - 1) /\ isword(s[c])

\* (?:between|among)\s+(.+?)\s+and\s+(.+?)\b
between_pattern(s) ==
    \E head \in {W_between, W_among} :
    \E a \in 1 .. Len(s) :
       /\ at(s, a, head)
       /\ LET i == a + Len(head) - 1
          IN  \E p \in i + 1 .. Len(s) :
                 /\ spaces(s, i + 1, p)
                 /\ \E b \in p + 3 .. Len(s) :
                       /\ at(s, b, W_and)
                       /\ \E q \in p + 1 .. b - 2 :
                             dots(s, p + 1, q) /\ spaces(s, q + 1, b - 1)
                       /\ \E r \in b + 3 .. Len(s) :
                             /\ spaces(s, b + 3, r)
                             /\ \E t \in r + 1 .. Len(s) :
                                   dots(s, r + 1, t) /\ boundary(s, t)

\* (\w+)\s*(?:,|\band\b)\s*(\w+)\s+(?:are|is)
listing_pattern(s) ==
    \E a \in 1 .. Len(s) :
       /\ isword(s[a])
       /\ \E m \in a + 1 .. Len(s) :
             /\ spaces(s, a + 1, m - 1)
             /\ \E sep \in {W_comma, W_and} :
                   /\ at(s, m, sep)
                   /\ sep = W_and =>
                         boundary(s, m - 1) /\ boundary(s, m + Len(sep) - 1)
                   /\ \E c \in m + Len(sep) .. Len(s) :
                         /\ spaces(s, m + Len(sep), c - 1)
                         /\ \E d \in c .. Len(s) :
                               /\ \A k \in c .. d : isword(s[k])
                               /\ \E e \in d + 1 .. Len(s) :
                                     /\ spaces(s, d + 1, e)
                                     /\ at(s, e + 1, W_are)
                                           \/ at(s, e + 1, W_is)

comparison_words ==
    {
      <<"c", "o", "m", "p", "a", "r", "e">>,
      <<"d", "i", "f", "f", "e", "r", "e", "n", "c", "e">>,
      <<"d", "i", "f", "f", "e", "r", "e", "n", "t">>,
      <<"s", "i", "m", "i", "l", "a", "r", "i", "t", "i", "e", "s">>,
      <<"s", "i", "m", "i", "l", "a", "r">>,
      <<"v", "e", "r", "s", "u", "s">>,
      <<"v", "s">>,
      <<"v", "s", ".">>,
      <<"b", "e", "t", "t", "e", "r">>,
      <<"w", "o", "r", "s", "e">>,
      <<"s", "t", "r", "o", "n", "g", "e", "r">>,
      <<"w", "e", "a", "k", "e", "r">> }

comparison_phrases ==
    {
      <<"w", "h", "a", "t", " ", "i", "s", " ", "t", "h", "e", " ", "d",
        "i", "f", "f", "e", "r", "e", "n", "c", "e">>,
      <<"h", "o", "w", " ", "d", "o", " ", "t", "h", "e", "y", " ", "c",
        "o", "m", "p", "a", "r", "e">>,
      <<"w", "h", "i", "c", "h", " ", "o", "n", "e", " ", "i", "s">>,
      <<"p", "r", "o", "s", " ", "a", "n", "d", " ", "c", "o", "n", "s">>,
      <<"a", "d", "v", "a", "n", "t", "a", "g", "e", "s", " ", "a", "n",
        "d", " ", "d", "i", "s", "a", "d", "v", "a", "n", "t", "a", "g",
        "e", "s">> }

\* _is_comparison_query: a comparison word among the tokens
word_check(query_lower) ==
    LET tokens == split(query_lower)
    IN  \E word \in comparison_words :
           \E i \in 1 .. Len(tokens) : tokens[i] = word

\* _is_comparison_query: a comparison phrase inside the query
phrase_check(query_lower) ==
    \E phrase \in comparison_phrases : contains(query_lower, phrase)

\* _is_comparison_query without its last check
is_comparison_query_no_entities(query) ==
    LET query_lower == lower(query)
    IN  IF word_check(query_lower) THEN TRUE
        ELSE IF phrase_check(query_lower) THEN TRUE
        ELSE or_pattern(query_lower)

\* _is_comparison_query(query)
is_comparison_query(query) ==
    LET query_lower == lower(query)
    IN  IF word_check(query_lower) THEN TRUE
        ELSE IF phrase_check(query_lower) THEN TRUE
        ELSE IF or_pattern(query_lower) THEN TRUE
        ELSE IF between_pattern(query_lower) THEN TRUE
        ELSE IF listing_pattern(query_lower) THEN TRUE
        ELSE FALSE

\* Bound on the words of a generated query
MaxWords == 4

Vocabulary ==
    {
      <<"A">>,
      <<"o", "r">>,
      <<"a", "n", "d">>,
      <<"b", "e", "t", "w", "e", "e", "n">>,
      <<"a", "r", "e">>,
      <<"b", ",", "c">>,
      <<"W", "h", "y">>,
      <<"c", "a", "t", "s", "?">> }

RECURSIVE join(_)
\* " ".join(words)
join(words) ==
    IF Len(words) = 0 THEN <<>>
    ELSE IF Len(words) = 1 THEN words[1]
    ELSE words[1] \o <<" ">> \o join(Tail(words))

Q_Difference ==
      <<"W", "h", "a", "t", " ", "i", "s", " ", "t", "h", "e", " ", "d",
        "i", "f", "f", "e", "r", "e", "n", "c", "e", " ", "b", "e", "t",
        "w", "e", "e", "n", " ", "A", " ", "a", "n", "d", " ", "B", "?">>

Q_Article ==
      <<"S", "u", "m", "m", "a", "r", "i", "z", "e", " ", "t", "h", "i",
        "s", " ", "a", "r", "t", "i", "c", "l", "e">>

SpacedQueries ==
    {
      <<"b", "e", "t", "w", "e", "e", "n", " ", " ", " ", "a", "n", "d",
        " ", "b">>,
      <<"a", "m", "o", "n", "g", " ", "a", " ", "a", "n", "d", " ", "?">>,
      <<" ", "w", "h", "y", " ">>,
      <<"c", "a", "t", "s", "?", " ">>,
      <<"c", "a", "t", "s", " ", "?", "x">>,
      <<"w", "h", "y", ",">>,
      <<"a", " ", ",", " ", "b", " ", "i", "s">>,
      <<"a", " ", "a", "n", "d", " ", "b", " ", "i", "s", "l", "a", "n", "d">>,
      <<"a", " ", "a", "n", "d", "b", " ", "a", "r", "e">>,
      <<"x", "\n", "o", "r", " ", "y">>,
      <<"P", "r", "o", "s", " ", "a", "n", "d", " ", "c", "o", "n", "s">>,
      <<"A", " ", "v", "s", ".", " ", "B">>,
      <<"A", " ", "V", "S", " ", "B">>,
      <<"b", "e", "t", "t", "e", "r", "?">>,
      <<"i", "n", "b", "e", "t", "w", "e", "e", "n", " ", "a", " ", "a",
        "n", "d", " ", "b">>,
      <<"a", " ", "o", "r">>,
      <<"o", "r", " ", "b">>,
      <<"a", "_", "1", " ", "o", "r", " ", "2", "b">>,
      <<"D", "I", "R", "E", "C", "T", " ", "Q", "U", "E", "S", "T", "I",
        "O", "N", ":", " ", "c", "a", "t", "s">>,
      <<"d", "i", "r", "e", "c", "t", " ", "q", "u", "e", "s", "t", "i",
        "o", "n", ":", " ", "c", "a", "t", "s">>,
      <<"h", "t", "t", "p", ":", "/", "/", "a", ".", "i", "o", " ", "w",
        "h", "y", "?">>,
      <<" ", "h", "t", "t", "p", "s", ":", "/", "/", "a", ".", "i", "o",
        " ", "w", "h", "y">>,
      <<"H", "T", "T", "P", ":", "/", "/", "a", ".", "i", "o">>,
      <<"b", "e", "t", "w", "e", "e", "n", " ", "a", "\n", "b", " ", "a",
        "n", "d", " ", "c">>,
      <<>> }

\* The queries of the classifiers' domain: every phrase of at most MaxWords
\* words of the vocabulary, and queries with other spacing and punctuation
TextQueries ==
    {join(ws) : ws \in UNION {[1 .. n -> Vocabulary] : n \in 1 .. MaxWords}}
        \cup SpacedQueries \cup {Q_Difference, Q_Article}

NoVerdict == [question |-> FALSE, comparison |-> FALSE]

TxStart ==
    /\ tx_pc = "question"
    /\ tx_query \in TextQueries
    /\ tx_out = NoVerdict

TxIdle ==
    /\ tx_pc = "idle"
    /\ tx_query = <<>>
    /\ tx_out = NoVerdict

TxOthersIdle == UNCHANGED <<tr_vars, sm_vars, as_vars, pl_vars>>

\* process_query asks is_question about the query
AskIsQuestion ==
    /\ tx_pc = "question"
    /\ tx_out' = [tx_out EXCEPT !.question = is_question(tx_query)]
    /\ tx_pc' = "comparison"
    /\ UNCHANGED tx_query
    /\ TxOthersIdle

\* create_question_answer asks _is_comparison_query about the query
AskIsComparison ==
    /\ tx_pc = "comparison"
    /\ tx_out' = [tx_out EXCEPT !.comparison = is_comparison_query(tx_query)]
    /\ tx_pc' = "done"
    /\ UNCHANGED tx_query
    /\ TxOthersIdle

\* process_query reading a URL query as a text query
is_url_never(query) == FALSE

\* process_query: is_url
is_url_literal(query) ==
    startswith(query, HttpPrefix) \/ startswith(query, HttpsPrefix)

\* The queries of the bounded domain
Q_Url ==
    <<"h", "t", "t", "p", ":", "/", "/", "a", ".", "i", "o">>

Q_UrlWhy ==
    <<"h", "t", "t", "p", "s", ":", "/", "/", "a", ".", "i", "o", " ", "w",
      "h", "y", "?">>

Q_WhyCats ==
    <<"W", "h", "y", " ", "c", "a", "t", "s">>

Q_CatsMark ==
    <<"c", "a", "t", "s", "?">>

Q_Cats ==
    <<"c", "a", "t", "s">>

Q_Direct ==
    <<"D", "I", "R", "E", "C", "T", " ", "Q", "U", "E", "S", "T", "I", "O",
      "N", ":", " ", "c", "a", "t", "s">>

Q_Summarize ==
    <<"S", "u", "m", "m", "a", "r", "i", "z", "e", ":", " ", "t">>

\* Provider names
P_OpenAI ==
    <<"o", "p", "e", "n", "a", "i">>

P_Gemini ==
    <<"g", "e", "m", "i", "n", "i">>

P_Anthropic ==
    <<"a", "n", "t", "h", "r", "o", "p", "i", "c">>

P_Perplexity ==
    <<"p", "e", "r", "p", "l", "e", "x", "i", "t", "y">>

P_Chutes ==
    <<"c", "h", "u", "t", "e", "s">>

Queries == {Q_Url, Q_UrlWhy, Q_WhyCats, Q_CatsMark, Q_Cats, Q_Direct}

\* Python's None, for a value that is otherwise a string
None == "<None>"

\* dict.get(key)
dict_get(d, key) == IF key \in DOMAIN d THEN d[key] ELSE None

\* truth value of a string or None
truthy(v) == v \notin {None, ""}

SupportedProviders == {P_Anthropic, P_OpenAI, P_Perplexity, P_Chutes}

SelectedProviders == {P_OpenAI, P_Gemini}

\* browser_api_keys: no key at all, an empty key, a key for one provider
KeyMaps ==
    { [p \in {} |-> ""],
      [p \in {P_OpenAI} |-> ""],
      [p \in {P_OpenAI} |-> "sk-1"],
      [p \in {P_Gemini} |-> "sk-2"] }

Actions == {"process_page", "answer_question", "summarize", "rename"}

\* page_content: None, or a dict with a text body and perhaps htmlContent
NoPage == [present |-> FALSE, html_key |-> FALSE, html |-> 0, text |-> 0]

TextPage(n) == [present |-> TRUE, html_key |-> FALSE, html |-> 0, text |-> n]

HtmlPage(n) == [present |-> TRUE, html_key |-> TRUE, html |-> n, text |-> 0]

PageContents ==
    {NoPage, TextPage(MinPageBody), TextPage(MinPageBody + 1),
     HtmlPage(MinPageBody + 1)}

\* additionalContexts: each context's content dict has a text and an html
ContextLists ==
    { <<>>,
      << [html |-> 0, text |-> MinContextBody] >>,
      << [html |-> MinContextBody + 1, text |-> 0] >> }

\* provided URLs: none, one, the same one twice, MaxUrls different ones
UrlLists == { <<>>, <<1>>, <<1, 1>>, [i \in 1 .. MaxUrls |-> i] }

\* the links found on the search page: none, or more than are kept
FoundLinkLists == { <<>>, [i \in 1 .. SearchCap + 1 |-> 10 + i] }

\* get_google_search_results: results[:5]
top_results(found) == SubSeq(found, 1, Min(Len(found), SearchCap))

\* a fetched page: no response, too little text, enough text
FetchOutcomes == {"failed", "short", "ok"}

IsQuestionArgs == {"none", "true", "false"}

\* conversation_history: None, a list of message dicts, not such a list
ConversationHistories == {"none", "items", "malformed"}

NoModelInfo ==
    [present |-> FALSE, provider |-> <<>>, api_key |-> None,
     isQuestion |-> "absent", originalQuery |-> <<>>,
     isAboutLinks |-> FALSE, additionalContexts |-> <<>>]

\* main: model_info
main_model_info(selected_provider, browser_api_keys) ==
    [present |-> TRUE, provider |-> selected_provider,
     api_key |-> dict_get(browser_api_keys, selected_provider),
     isQuestion |-> "absent", originalQuery |-> <<>>,
     isAboutLinks |-> FALSE, additionalContexts |-> <<>>]

BaseModelInfo == main_model_info(P_OpenAI, [p \in {P_OpenAI} |-> "sk-1"])

\* model_info as a caller of process_query may pass it
DirectModelInfos ==
    { NoModelInfo,
      BaseModelInfo,
      [BaseModelInfo EXCEPT !.isQuestion = "true"],
      [BaseModelInfo EXCEPT !.isQuestion = "false"],
      [BaseModelInfo EXCEPT !.originalQuery = Q_WhyCats],
      [BaseModelInfo EXCEPT !.originalQuery = Q_UrlWhy],
      [BaseModelInfo EXCEPT !.isAboutLinks = TRUE],
      [BaseModelInfo EXCEPT
          !.additionalContexts = << [html |-> MinContextBody + 1,
                                     text |-> 0] >>],
      [BaseModelInfo EXCEPT !.api_key = None],
      [BaseModelInfo EXCEPT !.provider = P_Gemini] }

\* results
NoOutcome ==
    [success |-> FALSE, shape |-> "none", error |-> "",
     summaries |-> <<>>, consolidated_summary |-> "",
     generation_time |-> "", isQuestion |-> FALSE]

\* an error result that still carries evidence
ErrorResultWithData(message) ==
    [success |-> FALSE, shape |-> "error", error |-> message,
     summaries |-> <<[origin |-> "page", url |-> 0,
                      is_full_content |-> FALSE, has_html |-> FALSE]>>,
     consolidated_summary |-> "", generation_time |-> "",
     isQuestion |-> FALSE]

ErrorResult(message) ==
    [success |-> FALSE, shape |-> "error", error |-> message,
     summaries |-> <<>>, consolidated_summary |-> "",
     generation_time |-> "", isQuestion |-> FALSE]

\* a result that leaves the evidence out
DataResultWithoutEvidence(summaries, consolidated, time, isq) ==
    [success |-> TRUE, shape |-> "data", error |-> "",
     summaries |-> <<>>, consolidated_summary |-> consolidated,
     generation_time |-> time, isQuestion |-> isq]

DataResult(summaries, consolidated, time, isq) ==
    [success |-> TRUE, shape |-> "data", error |-> "",
     summaries |-> summaries, consolidated_summary |-> consolidated,
     generation_time |-> time, isQuestion |-> isq]

\* evidence items
Evidence(origin, url, full, html) ==
    [origin |-> origin, url |-> url, is_full_content |-> full,
     has_html |-> html]

\* entries of the log of outside interactions
Call(op, url, prompt) == [op |-> op, url |-> url, prompt |-> prompt]

\* the credential check that lets an empty key through
credential_missing_unless_empty(info) == info.api_key = None

\* main: if not model_info['api_key']
credential_missing(info) == ~truthy(info.api_key)

\* generate_llm_response: what one call can come to.  No key and an
\* unsupported provider fail without a request; a request answers or raises.
llm_outcomes(info) ==
    IF ~truthy(info.api_key) THEN {"no_key"}
    ELSE IF lower(info.provider) \notin SupportedProviders
    THEN {"unsupported"}
    ELSE {"ok", "error"}

llm_requested(outcome) == outcome \in {"ok", "error"}

\* generation_time of a failed or successful call
llm_time(outcome) == IF llm_requested(outcome) THEN "elapsed" ELSE "zero"

llm_log(log, prompt, outcome) ==
    IF llm_requested(outcome) THEN Append(log, Call("llm", 0, prompt))
    ELSE log

\* generate_llm_response: one call as the log records it ("Generating
\* <prompt_type> using LLM"), with the evidence the prompt was built from
\* and what came of it
Attempt(prompt, evidence, outcome) ==
    [prompt |-> prompt, evidence |-> evidence, outcome |-> outcome]

Tried(frame, prompt, evidence, outcome) ==
    [frame EXCEPT
        !.attempts = Append(@, Attempt(prompt, evidence, outcome))]

\* process_urls with the limit tested one item late
cap_reached_late(summaries) == Len(summaries) > MaxSummaries

\* process_urls: if len(summaries) >= 3: break
cap_reached(summaries) == Len(summaries) >= MaxSummaries

\* process_query: query_is_question
classify_intent(query, is_question_arg, info) ==
    IF is_url_literal(query) THEN FALSE
    ELSE LET base == IF is_question_arg # "none"
                     THEN is_question_arg = "true"
                     ELSE is_question(query)
             flag == IF info.present /\ info.isQuestion # "absent"
                     THEN base \/ info.isQuestion = "true"
                     ELSE base
         IN  IF /\ info.present
                /\ info.originalQuery # <<>>
                /\ is_question(info.originalQuery)
             THEN TRUE
             ELSE flag

\* the body process_query reads from a page_content dict
page_has_html(page) == page.html_key /\ page.html > 0

page_body(page) == IF page_has_html(page) THEN page.html ELSE page.text

\* the body process_query reads from an additional context
context_body(ctx) == IF ctx.html > 0 THEN ctx.html ELSE ctx.text

\* the contexts kept in full whatever the intent
context_items_always_full(contexts, query_is_question) ==
    LET usable == SelectSeq(contexts,
                            LAMBDA c : context_body(c) > MinContextBody)
    IN  [i \in 1 .. Len(usable) |->
            Evidence("context", 0, TRUE, usable[i].html > 0)]

context_items(contexts, query_is_question) ==
    LET usable == SelectSeq(contexts,
                            LAMBDA c : context_body(c) > MinContextBody)
    IN  [i \in 1 .. Len(usable) |->
            Evidence("context", 0, query_is_question, usable[i].html > 0)]

PqFrame(pc, query, urls, page, info, is_question_arg, history) ==
    [pc |-> pc, query |-> query, provided_urls |-> urls,
     page_content |-> page, model_info |-> info,
     is_question |-> is_question_arg, conversation_history |-> history,
     is_url |-> FALSE, query_is_question |-> FALSE,
     is_about_links |-> FALSE, has_html_content |-> FALSE,
     summaries |-> <<>>, attempts |-> <<>>, result |-> NoOutcome]

PqNotCalled == PqFrame("idle", <<>>, <<>>, NoPage, NoModelInfo, "none", "none")

PuNotCalled == [pc |-> "idle", urls |-> <<>>, i |-> 1, summaries |-> <<>>]

NoRequest == [stdin |-> "", action |-> ""]

NoContext ==
    [selected_provider |-> <<>>, browser_api_keys |-> [p \in {} |-> ""]]

\* main before it reads its input
MainStart ==
    /\ m_pc = "read"
    /\ request = NoRequest
    /\ context = NoContext
    /\ model_info = NoModelInfo
    /\ agent = FALSE
    /\ m_result = NoOutcome
    /\ stdout = <<>>

\* main is not part of the run
MainIdle ==
    /\ m_pc = "idle"
    /\ request = NoRequest
    /\ context = NoContext
    /\ model_info = NoModelInfo
    /\ agent = FALSE
    /\ m_result = NoOutcome
    /\ stdout = <<>>

PqIdle == calls = <<>> /\ pq = PqNotCalled /\ pu = PuNotCalled

PlIdle == MainIdle /\ PqIdle

\* process_query entered by a caller other than main
QueryStart ==
    /\ calls = <<>>
    /\ pu = PuNotCalled
    /\ \E query \in Queries, urls \in {<<>>, [i \in 1 .. MaxUrls |-> i]},
          page \in PageContents, info \in DirectModelInfos,
          arg \in IsQuestionArgs, history \in ConversationHistories :
          pq = PqFrame("classify", query, urls, page, info, arg, history)

PlOthersIdle == UNCHANGED <<tr_vars, sm_vars, as_vars, tx_vars>>

(***************************************************************************)
(* main                                                                    *)
(***************************************************************************)
\* main: read stdin and parse the request
ReadInput ==
    /\ m_pc = "read"
    /\ \/ /\ request' = [stdin |-> "empty", action |-> ""]
          /\ m_pc' = "exit"
          /\ UNCHANGED context
       \/ /\ request' = [stdin |-> "malformed", action |-> ""]
          /\ m_pc' = "except"
          /\ UNCHANGED context
       \/ \E action \in Actions, provider \in SelectedProviders,
             keys \in KeyMaps :
             /\ request' = [stdin |-> "request", action |-> action]
             /\ context' = [selected_provider |-> provider,
                            browser_api_keys |-> keys]
             /\ m_pc' = "check"
    /\ UNCHANGED <<model_info, agent, m_result, stdout, calls, pq, pu>>
    /\ PlOthersIdle

\* main: build model_info and refuse to go on without a credential
CredentialCheck ==
    /\ m_pc = "check"
    /\ model_info' = main_model_info(context.selected_provider,
                                     context.browser_api_keys)
    /\ IF credential_missing(model_info')
       THEN /\ stdout' = Append(stdout, ErrorResult("no_api_key"))
            /\ m_pc' = "exit"
       ELSE /\ m_pc' = "construct"
            /\ UNCHANGED stdout
    /\ UNCHANGED <<request, context, agent, m_result, calls, pq, pu>>
    /\ PlOthersIdle

\* main: agent = TopicAgent(); the NLTK data is there, is downloaded, or
\* cannot be had (stopwords.words then raises)
ConstructAgent ==
    /\ m_pc = "construct"
    /\ \E nltk_data \in {"present", "downloaded", "unavailable"} :
          /\ calls' = IF nltk_data = "present" THEN calls
                      ELSE Append(calls, Call("nltk_download", 0, ""))
          /\ agent' = (nltk_data # "unavailable")
          /\ m_pc' = IF nltk_data = "unavailable" THEN "except"
                     ELSE "dispatch"
    /\ UNCHANGED <<request, context, model_info, m_result, stdout, pq, pu>>
    /\ PlOthersIdle

\* main: action == 'process_page'
ProcessPage ==
    /\ m_pc = "dispatch"
    /\ request.action = "process_page"
    /\ \E query \in Queries, page \in PageContents,
          contexts \in ContextLists, urls \in UrlLists,
          arg \in IsQuestionArgs, history \in ConversationHistories,
          is_about_links \in BOOLEAN :
          \* additionalContexts travel inside pageContent
          /\ contexts # <<>> => page.present
          /\ model_info' = [model_info EXCEPT
                               !.isAboutLinks = is_about_links,
                               !.additionalContexts = contexts]
          /\ pq' = PqFrame("classify", query, urls, page, model_info',
                           arg, history)
    /\ m_pc' = "call"
    /\ UNCHANGED <<request, context, agent, m_result, stdout, calls, pu>>
    /\ PlOthersIdle

\* main: action == 'answer_question'
AnswerQuestion ==
    /\ m_pc = "dispatch"
    /\ request.action = "answer_question"
    /\ \E question \in Queries, context_data \in {0, MinPageBody + 1},
          history \in ConversationHistories :
          pq' = PqFrame("classify", question, <<>>,
                        IF context_data > 0 THEN TextPage(context_data)
                        ELSE NoPage,
                        model_info, "true", history)
    /\ m_pc' = "call"
    /\ UNCHANGED <<request, context, model_info, agent, m_result, stdout,
                   calls, pu>>
    /\ PlOthersIdle

\* main: action == 'summarize'
SummarizeContent ==
    /\ m_pc = "dispatch"
    /\ request.action = "summarize"
    /\ \E content \in {0, MinPageBody, MinPageBody + 1} :
          IF content > 0
          THEN /\ pq' = PqFrame("classify", Q_Summarize, <<>>,
                                TextPage(content), model_info, "false",
                                "none")
               /\ m_pc' = "call"
               /\ UNCHANGED m_result
          ELSE /\ m_result' = ErrorResult("no_content")
               /\ m_pc' = "print"
               /\ UNCHANGED pq
    /\ UNCHANGED <<request, context, model_info, agent, stdout, calls, pu>>
    /\ PlOthersIdle

\* main: any other action
UnknownAction ==
    /\ m_pc = "dispatch"
    /\ request.action \notin {"process_page", "answer_question", "summarize"}
    /\ m_result' = ErrorResult("unknown_action")
    /\ m_pc' = "print"
    /\ UNCHANGED <<request, context, model_info, agent, stdout, calls, pq,
                   pu>>
    /\ PlOthersIdle

\* main: process_query has returned
ProcessQueryReturns ==
    /\ m_pc = "call"
    /\ pq.pc = "return"
    /\ m_result' = pq.result
    /\ m_pc' = "print"
    /\ UNCHANGED <<request, context, model_info, agent, stdout, calls, pq,
                   pu>>
    /\ PlOthersIdle

\* main: print(json.dumps(result))
PrintResult ==
    /\ m_pc = "print"
    /\ stdout' = Append(stdout, m_result)
    /\ m_pc' = "exit"
    /\ UNCHANGED <<request, context, model_info, agent, m_result, calls, pq,
                   pu>>
    /\ PlOthersIdle

\* main: except Exception
MainExcept ==
    /\ m_pc = "except"
    /\ stdout' = Append(stdout, ErrorResult("exception"))
    /\ m_pc' = "exit"
    /\ UNCHANGED <<request, context, model_info, agent, m_result, calls, pq,
                   pu>>
    /\ PlOthersIdle

(***************************************************************************)
(* process_query                                                           *)
(***************************************************************************)
PqReturn(result) == [pq EXCEPT !.pc = "return", !.result = result]

PqOthers == UNCHANGED main_vars /\ PlOthersIdle

\* process_query: clean the query, settle the intent, read the hints and
\* log the history (which raises when the history is not a list of dicts)
ClassifyIntent ==
    /\ pq.pc = "classify"
    /\ pq' = [pq EXCEPT
          !.is_url = is_url_literal(pq.query),
          !.query_is_question =
              classify_intent(pq.query, pq.is_question, pq.model_info),
          !.is_about_links =
              pq.model_info.present /\ pq.model_info.isAboutLinks,
          !.has_html_content =
              pq.page_content.present /\ pq.page_content.html_key,
          !.pc = IF pq.conversation_history = "malformed" THEN "except"
                 ELSE "html"]
    /\ UNCHANGED <<calls, pu>>
    /\ PqOthers

\* the HTML analysis giving up when its call fails
HtmlAnalysisAborts ==
    /\ pq.pc = "html"
    /\ IF /\ pq.query_is_question
          /\ pq.is_about_links
          /\ pq.has_html_content
          /\ pq.model_info.present
       THEN \E outcome \in llm_outcomes(pq.model_info) :
               /\ calls' = llm_log(calls, "html_analysis", outcome)
               /\ pq' = Tried(IF outcome = "ok"
                              THEN PqReturn(DataResult(<<>>, "answer",
                                                       "elapsed", TRUE))
                              ELSE [pq EXCEPT !.pc = "except"],
                              "html_analysis", <<>>, outcome)
       ELSE /\ pq' = [pq EXCEPT !.pc = "contexts"]
            /\ UNCHANGED calls
    /\ UNCHANGED pu
    /\ PqOthers

\* process_query: a question about links, answered from the page's HTML
HtmlAnalysis ==
    /\ pq.pc = "html"
    /\ IF /\ pq.query_is_question
          /\ pq.is_about_links
          /\ pq.has_html_content
          /\ pq.model_info.present
       THEN \E outcome \in llm_outcomes(pq.model_info) :
               /\ calls' = llm_log(calls, "html_analysis", outcome)
               /\ pq' = Tried(IF outcome = "ok"
                              THEN PqReturn(DataResult(<<>>, "answer",
                                                       "elapsed", TRUE))
                              ELSE [pq EXCEPT !.pc = "contexts"],
                              "html_analysis", <<>>, outcome)
       ELSE /\ pq' = [pq EXCEPT !.pc = "contexts"]
            /\ UNCHANGED calls
    /\ UNCHANGED pu
    /\ PqOthers

\* process_query: evidence from the additional contexts
AdditionalContexts ==
    /\ pq.pc = "contexts"
    /\ pq' = [pq EXCEPT
          !.summaries =
              IF pq.model_info.present
              THEN context_items(pq.model_info.additionalContexts,
                                 pq.query_is_question)
              ELSE <<>>,
          !.pc = "direct"]
    /\ UNCHANGED <<calls, pu>>
    /\ PqOthers

\* process_query: a question with page content is answered from the full
\* content; a failed answer falls through to the normal path
DirectQuestion ==
    /\ pq.pc = "direct"
    /\ IF pq.query_is_question /\ pq.page_content.present
          /\ pq.model_info.present
       THEN LET page == pq.page_content
                with_page ==
                    IF page_body(page) > MinPageBody
                    THEN Append(pq.summaries,
                                Evidence("page", 0, TRUE, page_has_html(page)))
                    ELSE pq.summaries
            IN  IF with_page # <<>>
                THEN \E outcome \in llm_outcomes(pq.model_info) :
                        /\ calls' = llm_log(calls, "question_answer", outcome)
                        /\ pq' = Tried(
                                 IF outcome = "ok"
                                 THEN PqReturn(DataResult(with_page, "answer",
                                                          "elapsed", TRUE))
                                 ELSE [pq EXCEPT !.summaries = with_page,
                                                 !.pc = "normal"],
                                 "question_answer", with_page, outcome)
                ELSE /\ pq' = [pq EXCEPT !.pc = "normal"]
                     /\ UNCHANGED calls
       ELSE /\ pq' = [pq EXCEPT !.pc = "normal"]
            /\ UNCHANGED calls
    /\ UNCHANGED pu
    /\ PqOthers

\* the page content passed over although nothing has been collected
page_first_skipped(frame) == FALSE

\* the page content passed over when its body is too short to be used
page_first_if_usable(frame) ==
    /\ frame.page_content.present
    /\ frame.summaries = <<>>
    /\ page_body(frame.page_content) > MinPageBody

\* process_query: page content is there and nothing has been collected yet
page_first(frame) == frame.page_content.present /\ frame.summaries = <<>>

\* process_query: summarize the page content
SummarizePage ==
    /\ pq.pc = "normal"
    /\ page_first(pq)
    /\ pq' = [pq EXCEPT
          !.summaries =
              IF page_body(pq.page_content) > MinPageBody
              THEN <<Evidence("page", 0, FALSE,
                              page_has_html(pq.page_content))>>
              ELSE <<>>,
          !.pc = "collected"]
    /\ UNCHANGED <<calls, pu>>
    /\ PqOthers

\* process_query: process_urls(provided_urls, clean_query)
UseProvidedUrls ==
    /\ pq.pc = "normal"
    /\ ~page_first(pq)
    /\ pq.provided_urls # <<>>
    /\ pu' = [pc |-> "loop", urls |-> pq.provided_urls, i |-> 1,
              summaries |-> <<>>]
    /\ pq' = [pq EXCEPT !.pc = "urls"]
    /\ UNCHANGED calls
    /\ PqOthers

\* a search made whatever has been collected
nothing_yet_unchecked(frame) == TRUE

\* process_query: elif not summaries ("Only search if we don't have any
\* content yet")
nothing_yet(frame) == frame.summaries = <<>>

\* the search repeated before its results are used
SearchWebTwice ==
    /\ pq.pc = "normal"
    /\ pq.provided_urls = <<>>
    /\ pq.summaries = <<>>
    /\ ~pq.page_content.present
    /\ calls' = calls \o <<Call("search", 0, ""), Call("search", 0, "")>>
    /\ \E found \in FoundLinkLists :
          LET search_urls == top_results(found)
          IN
          IF search_urls # <<>>
          THEN /\ pu' = [pc |-> "loop", urls |-> search_urls, i |-> 1,
                         summaries |-> <<>>]
               /\ pq' = [pq EXCEPT !.pc = "urls"]
          ELSE /\ pq' = [pq EXCEPT !.pc = "collected"]
               /\ UNCHANGED pu
    /\ PqOthers

\* process_query: search, then process_urls(search_urls, clean_query)
SearchWeb ==
    /\ pq.pc = "normal"
    /\ ~page_first(pq)
    /\ pq.provided_urls = <<>>
    /\ nothing_yet(pq)
    /\ calls' = Append(calls, Call("search", 0, ""))
    /\ \E found \in FoundLinkLists :
          LET search_urls == top_results(found)
          IN
          IF search_urls # <<>>
          THEN /\ pu' = [pc |-> "loop", urls |-> search_urls, i |-> 1,
                         summaries |-> <<>>]
               /\ pq' = [pq EXCEPT !.pc = "urls"]
          ELSE /\ pq' = [pq EXCEPT !.pc = "collected"]
               /\ UNCHANGED pu
    /\ PqOthers

\* process_query: evidence is there already, no page and no URLs
NothingToCollect ==
    /\ pq.pc = "normal"
    /\ ~page_first(pq)
    /\ pq.provided_urls = <<>>
    /\ pq.summaries # <<>>
    /\ pq' = [pq EXCEPT !.pc = "collected"]
    /\ UNCHANGED <<calls, pu>>
    /\ PqOthers

\* process_urls: one turn of the loop: fetch the page, extract its text,
\* summarize it and add the summary
ProcessUrl ==
    /\ pq.pc = "urls"
    /\ pu.pc = "loop"
    /\ pu.i <= Len(pu.urls)
    /\ ~cap_reached(pu.summaries)
    /\ calls' = Append(calls, Call("fetch", pu.urls[pu.i], ""))
    /\ \E outcome \in FetchOutcomes :
          pu' = [pu EXCEPT
              !.i = pu.i + 1,
              !.summaries =
                  IF outcome = "ok"
                  THEN Append(pu.summaries,
                              Evidence("url", pu.urls[pu.i], FALSE, FALSE))
                  ELSE pu.summaries]
    /\ UNCHANGED pq
    /\ PqOthers

\* process_urls: the list is exhausted or the limit is reached; the caller
\* extends its evidence list with the summaries
ProcessUrlsReturns ==
    /\ pq.pc = "urls"
    /\ pu.pc = "loop"
    /\ pu.i > Len(pu.urls) \/ cap_reached(pu.summaries)
    /\ pu' = [pu EXCEPT !.pc = "done"]
    /\ pq' = [pq EXCEPT !.summaries = pq.summaries \o pu.summaries,
                        !.pc = "collected"]
    /\ UNCHANGED calls
    /\ PqOthers

\* process_query: no evidence: a question is tried from general knowledge,
\* anything else gets the default message
NoSummaries ==
    /\ pq.pc = "collected"
    /\ pq.summaries = <<>>
    /\ LET default == DataResult(<<>>, "no_relevant_information", "zero",
                                 pq.query_is_question)
       IN  IF pq.query_is_question /\ pq.model_info.present
           THEN \E outcome \in llm_outcomes(pq.model_info) :
                   /\ calls' = llm_log(calls, "question_answer", outcome)
                   /\ pq' = Tried(IF outcome = "ok"
                                  THEN PqReturn(DataResult(<<>>, "answer",
                                                           "elapsed", TRUE))
                                  ELSE PqReturn(default),
                                  "question_answer", <<>>, outcome)
           ELSE /\ pq' = PqReturn(default)
                /\ UNCHANGED calls
    /\ UNCHANGED pu
    /\ PqOthers

\* process_query: evidence but no model_info: the summaries alone
SummariesOnly ==
    /\ pq.pc = "collected"
    /\ pq.summaries # <<>>
    /\ ~pq.model_info.present
    /\ pq' = PqReturn(DataResult(pq.summaries, "none", "zero",
                                 pq.query_is_question))
    /\ UNCHANGED <<calls, pu>>
    /\ PqOthers

\* process_query: create_question_answer or create_summary over the evidence
Generate ==
    /\ pq.pc = "collected"
    /\ pq.summaries # <<>>
    /\ pq.model_info.present
    /\ \E outcome \in llm_outcomes(pq.model_info) :
          /\ calls' = llm_log(calls,
                              IF pq.query_is_question THEN "question_answer"
                              ELSE "summary",
                              outcome)
          /\ pq' = Tried(IF outcome = "ok"
                         THEN PqReturn(DataResult(pq.summaries, "answer",
                                                  "elapsed",
                                                  pq.query_is_question))
                         ELSE PqReturn(DataResult(pq.summaries,
                                                  "failed_to_generate",
                                                  "zero",
                                                  pq.query_is_question)),
                         IF pq.query_is_question THEN "question_answer"
                         ELSE "summary",
                         pq.summaries, outcome)
    /\ UNCHANGED pu
    /\ PqOthers

\* process_query: except Exception
QueryExcept ==
    /\ pq.pc = "except"
    /\ pq' = PqReturn(ErrorResult("exception"))
    /\ UNCHANGED <<calls, pu>>
    /\ PqOthers

\* @@SPECS@@
(***************************************************************************)
(* Specifications.  Each runs one component from every input of its        *)
(* bounded domain; the other components stay idle.                         *)
(***************************************************************************)
\* truncate_content_by_tokens applied once and then again to its own result
TrInit == TrStart /\ SmIdle /\ AsIdle /\ PlIdle /\ TxIdle

TrNext == TruncateOnce \/ TruncateAgain

SpecTruncate == TrInit /\ [][TrNext]_vars

\* the query classifiers, called one after the other on one query
TxInit == TxStart /\ TrIdle /\ SmIdle /\ AsIdle /\ PlIdle

TxNext == AskIsQuestion \/ AskIsComparison

SpecClassify == TxInit /\ [][TxNext]_vars

\* one call of summarize_text
SmInit == SmStart /\ TrIdle /\ AsIdle /\ PlIdle /\ TxIdle

SpecSummarize == SmInit /\ [][Summarize]_vars

\* one call of create_question_answer or create_summary
AsInit == AsStart /\ TrIdle /\ SmIdle /\ PlIdle /\ TxIdle

AsNext ==
    \/ AssembleMemory
    \/ AssembleConversation
    \/ AssembleSources
    \/ SummarySources
    \/ FinalCheck
    \/ BuilderReturns

SpecAssemble == AsInit /\ [][AsNext]_vars

\* process_query and process_urls, as far as main's calls take them: main
\* always passes a model_info, so the return of the summaries alone (taken
\* when model_info is missing) belongs to other callers only
PqCalledNext ==
    \/ ClassifyIntent
    \/ HtmlAnalysis
    \/ AdditionalContexts
    \/ DirectQuestion
    \/ SummarizePage
    \/ UseProvidedUrls
    \/ SearchWeb
    \/ NothingToCollect
    \/ ProcessUrl
    \/ ProcessUrlsReturns
    \/ NoSummaries
    \/ Generate
    \/ QueryExcept

\* process_query and process_urls under any caller
PqNext == PqCalledNext \/ SummariesOnly

\* one call of process_query by a caller other than main
QueryInit == QueryStart /\ MainIdle /\ TrIdle /\ SmIdle /\ AsIdle /\ TxIdle

SpecQuery == QueryInit /\ [][PqNext]_vars

\* process_query runs one statement after the other and every call it
\* makes returns (requests carry timeouts): a step that can be taken is taken
FairSpecQuery == SpecQuery /\ WF_vars(PqNext)

MainNext ==
    \/ ReadInput
    \/ CredentialCheck
    \/ ConstructAgent
    \/ ProcessPage
    \/ AnswerQuestion
    \/ SummarizeContent
    \/ UnknownAction
    \/ ProcessQueryReturns
    \/ PrintResult
    \/ MainExcept

\* one run of the extension: main from its start
Init == MainStart /\ PqIdle /\ TrIdle /\ SmIdle /\ AsIdle /\ TxIdle

Next == MainNext \/ PqCalledNext

Spec == Init /\ [][Next]_vars

(***************************************************************************)
(* Claims about the prompt builders (checked under SpecAssemble).          *)
(***************************************************************************)
\* C1: the prompt that create_question_answer and create_summary hand to
\* generate_llm_response satisfies estimate_tokens(system_prompt) +
\* estimate_tokens(user_prompt) <= 180000, for every query, evidence list
\* and history.
C1_PromptWithinTotalCeiling ==
    as_pc \in {"llm", "done"} =>
        TokensOfLen(as_prompt.system) + TokensOfLen(as_prompt.user)
            <= MAX_TOTAL_TOKENS

\* C1 witness: the joined sections of a question prompt exceeded the
\* ceiling, the final check cut the user prompt, and it was handed over.
C1_Witness ==
    /\ as_pc = "llm"
    /\ as_in.kind = "qa"
    /\ as_st.cut
    /\ TokensOfLen(QaSystemLen) + TokensOfLen(user_prompt_len)
           > MAX_TOTAL_TOKENS

(***************************************************************************)
(* Claims about the token estimator (checked under SpecTruncate).          *)
(***************************************************************************)
\* The first call shortened the text (the marker was appended).
TrShortened ==
    /\ tr_pc # "call"
    /\ tr_out.exc = "none"
    /\ tr_out.value # tr_text

\* C2: for every text and every limit k >= 100, the truncated text's
\* estimate is at most k: estimate_tokens(truncate(T, k)) <= k.  The second
\* application (to a text that already ends with the marker) is a further
\* input of the same claim.
C2_TruncateFitsFrom100 ==
    tr_max >= 100 =>
        /\ tr_pc # "call" =>
               /\ tr_out.exc = "none"
               /\ estimate_tokens(tr_out.value) <= tr_max
        /\ tr_pc = "done" =>
               /\ tr_out2.exc = "none"
               /\ estimate_tokens(tr_out2.value) <= tr_max

\* C2 witness: a limit of at least 100 tokens and a text that exceeded it
\* and was cut.
C2_Witness ==
    /\ tr_max >= 100
    /\ TrShortened
    /\ estimate_tokens(tr_text) > tr_max

\* C3: for any text and any max_tokens, including limits below 100,
\* truncate returns a text whose estimate is at most max_tokens.  An estimate
\* is never negative, so no result can meet a negative limit; the claim is
\* stated here for the limits that can be met (max_tokens >= 0), which is
\* all it takes to refute it.
C3_TruncateFitsAlways ==
    (tr_pc # "call" /\ tr_max >= 0) =>
        /\ tr_out.exc = "none"
        /\ estimate_tokens(tr_out.value) <= tr_max

\* C4: truncate is idempotent: truncate(truncate(t, n), n) = truncate(t, n)
\* for every text t and every limit n.
C4_TruncateIdempotent ==
    (tr_pc = "done" /\ tr_out.exc = "none") => tr_out2 = tr_out

(***************************************************************************)
(* Claims about the extractive summarizer (checked under SpecSummarize).   *)
(***************************************************************************)
\* The call went through scoring: the text is long enough, the tokenizers
\* work and there are more sentences than asked for.
SmCompressed ==
    /\ sm_pc = "done"
    /\ sm_tok_ok
    /\ sm_text.len >= MinSummarizeLen
    /\ Len(sm_text.sents) > sm_n

\* Sentences of the text that hold at least one scored word.
SmScored ==
    {i \in 1 .. Len(sm_text.sents) :
        \E k \in 1 .. Len(sm_text.sents[i]) :
            IsAlnum(sm_text.sents[i][k]) /\ sm_text.sents[i][k] \notin StopWords}

\* C5: a text whose sentence count (as sent_tokenize reports it) is at most
\* the target N is returned unchanged.
C5_FewSentencesUnchanged ==
    (sm_pc = "done" /\ sm_tok_ok /\ Len(sm_text.sents) <= sm_n) =>
        sm_out = Verbatim(sm_text)

\* C5 witness: a text of at least 100 characters with exactly N sentences
\* went through the sentence count test and came back unchanged.
C5_Witness ==
    /\ sm_pc = "done"
    /\ sm_tok_ok
    /\ sm_text.len >= MinSummarizeLen
    /\ Len(sm_text.sents) = sm_n
    /\ sm_out.kind = "text"

\* C6 as claimed: a text with more than N sentences yields exactly N
\* sentences, whatever its scored sentences and whatever its length.
C6_ExactlyNSentences ==
    (sm_pc = "done" /\ sm_tok_ok /\ Len(sm_text.sents) > sm_n) =>
        Len(sm_out.idx) = sm_n

\* C6 amended: for a text with more than N sentences whose tokenization
\* succeeds, a text under 100 characters is returned whole; otherwise the
\* result has the first N sentences when no sentence is scored, and
\* min(N, number of scored sentences) sentences when some are: never more
\* than N.
C6_AtMostNSentences ==
    (sm_pc = "done" /\ sm_tok_ok /\ Len(sm_text.sents) > sm_n) =>
        IF sm_text.len < MinSummarizeLen
        THEN sm_out = Verbatim(sm_text)
        ELSE /\ sm_out.kind = "sentences"
             /\ Len(sm_out.idx) <= sm_n
             /\ Len(sm_out.idx) =
                    IF SmScored = {} \/ Cardinality(SmScored) >= sm_n
                    THEN sm_n
                    ELSE Cardinality(SmScored)

\* C6 witness: compression ran with fewer scored sentences than N, and the
\* summary is shorter than N sentences.
C6_Witness ==
    /\ SmCompressed
    /\ SmScored # {}
    /\ Cardinality(SmScored) < sm_n
    /\ Len(sm_out.idx) = Cardinality(SmScored)

\* C7: for a text with more than N sentences, every sentence of the output
\* is a sentence of the text, and the output sentences are in strictly
\* increasing original position.
C7_SourceOrder ==
    (sm_pc = "done" /\ sm_tok_ok /\ Len(sm_text.sents) > sm_n) =>
        /\ sm_out.kind \in {"text", "sentences"}
        /\ \A k \in 1 .. Len(sm_out.idx) :
               sm_out.idx[k] \in 1 .. Len(sm_text.sents)
        /\ \A k \in 1 .. Len(sm_out.idx) - 1 :
               sm_out.idx[k] < sm_out.idx[k + 1]

\* C7 witness: compression selected a later sentence with a strictly higher
\* score than an earlier selected one (score order and source order differ).
C7_Witness ==
    /\ SmCompressed
    /\ Len(sm_out.idx) >= 2
    /\ LET freq   == FreqDist(ContentWords(Flatten(sm_text.sents)))
           scores == sentence_scores(sm_text.sents, freq)
       IN  \E k \in 1 .. Len(sm_out.idx) - 1 :
               /\ sm_out.idx[k] \in DOMAIN scores
               /\ sm_out.idx[k + 1] \in DOMAIN scores
               /\ scores[sm_out.idx[k]] < scores[sm_out.idx[k + 1]]

(***************************************************************************)
(* Claims about the classification of the intent (checked under SpecQuery).*)
(***************************************************************************)
\* C8: a query that begins with http:// or https:// is never treated as a
\* question: is_question returns false for it, and process_query settles on
\* a non-question intent whatever is_question argument, isQuestion flag or
\* originalQuery the caller passes.
C8_UrlNeverQuestion ==
    (startswith(pq.query, HttpPrefix) \/ startswith(pq.query, HttpsPrefix)) =>
        /\ ~is_question(pq.query)
        /\ pq.pc \notin {"idle", "classify"} => ~pq.query_is_question
        /\ pq.pc = "return" /\ pq.result.shape = "data"
               => ~pq.result.isQuestion

\* C8 witness: a URL followed by question wording, passed with
\* is_question=True and a model_info whose originalQuery reads as a
\* question, has been classified.
C8_Witness ==
    /\ pq.pc = "html"
    /\ pq.query = Q_UrlWhy
    /\ pq.is_question = "true"
    /\ pq.model_info.originalQuery = Q_WhyCats
    /\ ~pq.query_is_question

(***************************************************************************)
(* Claims about the request pipeline (checked under Spec).                 *)
(***************************************************************************)
\* The fetches of result and provided pages in the log
UrlFetches(log) == SelectSeq(log, LAMBDA c : c.op = "fetch")

\* C9: process_urls returns at most 3 items, and once the third item has
\* been added no later URL of the list is fetched.
C9_StopsAfterThree ==
    /\ [](Len(pu.summaries) <= 3)
    /\ [][Len(pu.summaries) >= 3 => UrlFetches(calls') = UrlFetches(calls)]_vars

\* C9 witness: process_urls has returned three items with URLs of its list
\* left over.
C9_Witness ==
    /\ pu.pc = "done"
    /\ Len(pu.summaries) = 3
    /\ pu.i <= Len(pu.urls)

\* C10: when the selected provider has no credential (no key or an empty
\* one), main prints one result with success=false and an error, whatever
\* the action, and nothing else happens: no fetch, no search, no LLM call,
\* no agent.
C10_NoCredentialAborts ==
    (/\ request.stdin = "request"
     /\ m_pc \notin {"read", "check"}
     /\ dict_get(context.browser_api_keys, context.selected_provider)
            \in {None, ""})
    => /\ m_pc = "exit"
       /\ Len(stdout) = 1
       /\ ~stdout[1].success
       /\ stdout[1].shape = "error"
       /\ stdout[1].error # ""
       /\ calls = <<>>
       /\ ~agent
       /\ pq.pc = "idle"
       /\ pu.pc = "idle"

\* C10 witness: a page request arrives with a key for another provider
\* only, and main has ended with the error.
C10_Witness ==
    /\ m_pc = "exit"
    /\ request.action = "process_page"
    /\ context.selected_provider = P_OpenAI
    /\ P_OpenAI \notin DOMAIN context.browser_api_keys
    /\ P_Gemini \in DOMAIN context.browser_api_keys
    /\ stdout = <<ErrorResult("no_api_key")>>


(***************************************************************************)
(* The zero-evidence branch and failed generation                          *)
(***************************************************************************)
\* the step of process_query that leaves the "no summaries" branch
ZeroEvidenceStep ==
    pq.pc = "collected" /\ pq.summaries = <<>> /\ pq'.pc = "return"

\* the last call of generate_llm_response in this invocation
LastAttempt(frame) == frame.attempts[Len(frame.attempts)]

\* C11: when evidence collection yields no items, a question with
\* credentials present has create_question_answer invoked with an empty
\* evidence list and its answer returned with success=true; a non-question
\* gets no LLM call and the fixed "No relevant information found." result
\* with success=true.
C11_ZeroEvidence ==
    [][ZeroEvidenceStep =>
          IF pq.query_is_question
          THEN (pq.model_info.present /\ truthy(pq.model_info.api_key)) =>
                  /\ Len(pq'.attempts) = Len(pq.attempts) + 1
                  /\ LastAttempt(pq').prompt = "question_answer"
                  /\ LastAttempt(pq').evidence = <<>>
                  /\ pq'.result =
                        DataResult(<<>>, "answer", "elapsed", TRUE)
          ELSE /\ pq'.attempts = pq.attempts
               /\ calls' = calls
               /\ pq'.result =
                     DataResult(<<>>, "no_relevant_information", "zero",
                                FALSE)]_vars

\* the invocation ended on a failed call of generate_llm_response
GenerationFailed(frame) ==
    /\ frame.attempts # <<>>
    /\ LastAttempt(frame).outcome # "ok"

\* C12: process_query returns success=false only when an exception escaped
\* its body; when generation by the LLM fails, the final result has
\* success=true and a consolidated_summary that explains the failure.
C12_FailureReported ==
    pq.pc = "return" =>
        /\ ~pq.result.success => pq.result = ErrorResult("exception")
        /\ GenerationFailed(pq) =>
              /\ pq.result.success
              /\ pq.result.consolidated_summary = "failed_to_generate"

(***************************************************************************)
(* Where the evidence comes from                                           *)
(***************************************************************************)
\* the addresses a search can return; the provided URLs are other addresses
SearchLinks ==
    UNION { { found[i] : i \in DOMAIN found } : found \in FoundLinkLists }

\* the source of an evidence item: the page content, an additional context,
\* a provided URL or a search result
source_of(item) ==
    IF item.origin = "url" /\ item.url \in SearchLinks THEN "search"
    ELSE item.origin

Sources(items) == { source_of(items[i]) : i \in DOMAIN items }

\* the fetches and searches of the log
Consulted(log) == SelectSeq(log, LAMBDA c : c.op \in {"fetch", "search"})

Searched(log) == \E i \in DOMAIN log : log[i].op = "search"

\* C13 as stated: all evidence of one invocation comes from exactly one of
\* the four sources, and once a source has produced evidence no later
\* source is consulted.
C13_OneSourceOnly ==
    /\ [](/\ Cardinality(Sources(pq.summaries)) <= 1
          /\ Cardinality(Sources(pq.result.summaries)) <= 1)
    /\ [][pq.summaries # <<>> =>
             Consulted(calls') = Consulted(calls)]_vars

\* C13, amended: search is the last resort.  It is made only when no page
\* content and no URLs were supplied and nothing has been collected, so
\* evidence from search is never mixed with evidence from another source;
\* a summarized page stands alone.  (Additional contexts, the full page of
\* a direct question and provided URLs can be combined.)
C13_SearchLastResort ==
    /\ Searched(calls) =>
          /\ ~pq.page_content.present
          /\ pq.provided_urls = <<>>
          /\ Sources(pq.summaries) \subseteq {"search"}
          /\ Sources(pq.result.summaries) \subseteq {"search"}
    /\ "search" \in Sources(pq.summaries) => Searched(calls)
    /\ \A i \in DOMAIN pq.summaries :
          (pq.summaries[i].origin = "page"
              /\ ~pq.summaries[i].is_full_content)
          => Len(pq.summaries) = 1

\* a search was made and several of its results are the evidence returned
C13_Witness ==
    /\ pq.pc = "return"
    /\ Searched(calls)
    /\ Len(pq.result.summaries) >= 2
    /\ Sources(pq.result.summaries) = {"search"}

(***************************************************************************)
(* The prompt's sections                                                   *)
(***************************************************************************)
\* create_question_answer has written its memory section
MemoryWritten ==
    /\ as_in.kind = "qa"
    /\ as_pc \notin {"idle", "memory"}
    /\ memory_items(as_in.history) # <<>>

\* C14: in create_question_answer the memory items are written grouped per
\* domain whenever the query is a comparison and the memory items of the
\* history carry more than one source domain, and as a flat list in history
\* order otherwise.
C14_GroupedByDomain ==
    MemoryWritten =>
        IF as_in.comparison /\ has_multiple_sources(as_in.history)
        THEN as_st.layout = "grouped"
        ELSE as_st.layout = "flat"

(***************************************************************************)
(* Retries, searches and what a result carries                             *)
(***************************************************************************)
\* C15: no retries inside one process_query invocation: each URL is fetched
\* at most once, and after an LLM request has failed no other LLM request
\* is issued for the same prompt (same kind, same evidence list; query and
\* history are those of the invocation).
C15_NoRetries ==
    /\ \A i, j \in DOMAIN UrlFetches(calls) :
          i # j => UrlFetches(calls)[i].url # UrlFetches(calls)[j].url
    /\ \A i, j \in DOMAIN pq.attempts :
          (/\ i < j
           /\ pq.attempts[i].outcome = "error"
           /\ llm_requested(pq.attempts[j].outcome))
          => \/ pq.attempts[i].prompt # pq.attempts[j].prompt
             \/ pq.attempts[i].evidence # pq.attempts[j].evidence

\* what the additional contexts of the invocation give as evidence
context_evidence(frame) ==
    IF frame.model_info.present
    THEN context_items(frame.model_info.additionalContexts,
                       frame.query_is_question)
    ELSE <<>>

\* C16 as stated: when the query is a URL literal, get_google_search_results
\* is never called in that invocation.
C16_UrlNeverSearches ==
    is_url_literal(pq.query) => ~Searched(calls)

\* C16, amended: a URL literal is searched for like any other query, as the
\* last resort.  Once the normal path has chosen its source, the search has
\* been made exactly when no page content and no URLs were supplied and the
\* additional contexts gave no evidence; with page content or URLs supplied
\* no search is ever made.
C16_UrlSearchedAsLastResort ==
    is_url_literal(pq.query) =>
        /\ Searched(calls) =>
              /\ ~pq.page_content.present
              /\ pq.provided_urls = <<>>
              /\ context_evidence(pq) = <<>>
        /\ pq.pc \in {"urls", "collected"} =>
              (Searched(calls) <=>
                  /\ ~pq.page_content.present
                  /\ pq.provided_urls = <<>>
                  /\ context_evidence(pq) = <<>>)

\* a URL literal was searched for and pages found by the search are the
\* evidence returned
C16_Witness ==
    /\ pq.pc = "return"
    /\ is_url_literal(pq.query)
    /\ Searched(calls)
    /\ pq.result.summaries # <<>>
    /\ pq.result.success

\* C17: when the LLM client fails or times out, the result returned by
\* process_query has success=true, carries a failure message, and its
\* generation_time is the elapsed time that generate_llm_response reported
\* for the failed call.
C17_FailureCarriesElapsedTime ==
    (/\ pq.pc = "return"
     /\ pq.attempts # <<>>
     /\ LastAttempt(pq).outcome = "error")
    => /\ pq.result.success
       /\ pq.result.consolidated_summary = "failed_to_generate"
       /\ pq.result.generation_time = llm_time(LastAttempt(pq).outcome)

\* C18: in create_question_answer the memory section and the conversation
\* section share one pool: as written into the prompt, their estimated
\* tokens sum to no more than the memory ceiling.
C18_MemoryPoolShared ==
    (as_in.kind = "qa" /\ as_pc \notin {"idle", "memory", "conversation"})
    => TokensOfLen(as_st.memory) + TokensOfLen(as_st.conversation)
          <= MAX_MEMORY_TOKENS

\* create_question_answer has written its sources section
SourcesWritten ==
    /\ as_in.kind = "qa"
    /\ as_pc \in {"final", "llm", "done"}
    /\ as_in.summaries # <<>>

\* C19: in create_question_answer, for every evidence list, the content
\* text written for each source has an estimated token count no greater
\* than tokens_per_source.
C19_SourceWithinAllotment ==
    SourcesWritten =>
        \A i \in DOMAIN as_st.contents :
            as_st.contents[i] >= 0
            => TokensOfLen(as_st.contents[i]) <= as_st.tps

\* the page content passed to process_query has a body it can use
UsablePage(frame) ==
    /\ frame.page_content.present
    /\ page_body(frame.page_content) > MinPageBody

\* the answer came from the HTML-analysis branch
HtmlAnswered(frame) ==
    /\ frame.attempts # <<>>
    /\ LastAttempt(frame).prompt = "html_analysis"
    /\ LastAttempt(frame).outcome = "ok"

\* C20 as stated: the evidence list of a successful result is empty only
\* when neither supplied content nor provided URLs nor search yielded any
\* evidence; it is non-empty whenever usable page content was supplied and
\* used to produce the answer.
C20_EmptyOnlyWhenNothingFound ==
    (pq.pc = "return" /\ pq.result.success)
    => /\ pq.result.summaries = <<>> =>
             /\ pq.summaries = <<>>
             /\ context_evidence(pq) = <<>>
             /\ ~UsablePage(pq)
       /\ UsablePage(pq) => pq.result.summaries # <<>>

\* C20, amended: the evidence list of a successful result is empty only
\* when nothing was collected, or when the answer came from the
\* HTML-analysis branch, which reads the page's HTML itself and returns an
\* empty list; on every other branch a usable page gives a non-empty list.
C20_EmptyOnlyWithoutEvidenceOrHtml ==
    (pq.pc = "return" /\ pq.result.success)
    => IF HtmlAnswered(pq)
       THEN pq.result.summaries = <<>>
       ELSE /\ pq.result.summaries = <<>> =>
                  /\ pq.summaries = <<>>
                  /\ context_evidence(pq) = <<>>
                  /\ ~UsablePage(pq)
            /\ UsablePage(pq) => pq.result.summaries # <<>>

\* a question about links was answered from a usable page's HTML and the
\* result carries no evidence
C20_Witness ==
    /\ pq.pc = "return"
    /\ pq.result.success
    /\ HtmlAnswered(pq)
    /\ UsablePage(pq)
    /\ pq.result.summaries = <<>>
    /\ pq.result.consolidated_summary = "answer"

(***************************************************************************)
(* What main prints                                                        *)
(***************************************************************************)
\* a result of one of the two shapes: {success: true, data} or
\* {success: false, error} with a message and nothing else
WellShaped(r) ==
    \/ r.success /\ r.shape = "data"
    \/ /\ ~r.success
       /\ r.shape = "error"
       /\ r.error # ""
       /\ r.summaries = <<>>
       /\ r.consolidated_summary = ""

\* C21 as stated: every path through main and process_query, empty input
\* included, ends with exactly one result of the shape {success, data} or
\* {success: false, error} written; an exception gives success=false with
\* its message and no partial data.
C21_AlwaysOneResult ==
    /\ Len(stdout) <= 1
    /\ m_pc = "exit" => (Len(stdout) = 1 /\ WellShaped(stdout[1]))
    /\ pq.pc = "return" => WellShaped(pq.result)

\* C21, amended: main writes at most one result; when it has ended it has
\* written exactly one well-shaped result unless the input was empty, in
\* which case it has written nothing; process_query always returns a
\* well-shaped result, and an exception gives success=false with its
\* message and no data.
C21_OneResultUnlessEmptyInput ==
    /\ Len(stdout) <= 1
    /\ m_pc = "exit" =>
          IF request.stdin = "empty" THEN stdout = <<>>
          ELSE Len(stdout) = 1 /\ WellShaped(stdout[1])
    /\ pq.pc = "return" => WellShaped(pq.result)
    /\ (pq.pc = "return" /\ pq.conversation_history = "malformed")
          => (~pq.result.success /\ pq.result.error = "exception")

\* an exception raised inside process_query has been printed by main as an
\* error result
C21_Witness ==
    /\ m_pc = "exit"
    /\ pq.pc = "return"
    /\ pq.conversation_history = "malformed"
    /\ stdout = <<ErrorResult("exception")>>

(***************************************************************************)
(* How evidence is built and which branch answers                          *)
(***************************************************************************)
\* the evidence built from the page content or an additional context, in
\* the list being collected and in the result
SuppliedEvidence ==
    { pq.summaries[i] : i \in DOMAIN pq.summaries }
    \cup { pq.result.summaries[i] : i \in DOMAIN pq.result.summaries }

Classified == pq.pc \notin {"idle", "classify"}

\* C22 as stated: every evidence item built from supplied page content or
\* an additional context is the full body exactly when the classified
\* intent is a question, and a summarize_text extract otherwise.
C22_FullExactlyForQuestions ==
    Classified =>
        \A item \in SuppliedEvidence :
            item.origin \in {"page", "context"}
            => (item.is_full_content <=> pq.query_is_question)

\* C22, amended: such an item is the full body exactly when the intent is
\* a question and model_info was passed; a question asked without
\* model_info gets its page summarized, like a non-question.
C22_FullForQuestionsWithModelInfo ==
    Classified =>
        \A item \in SuppliedEvidence :
            item.origin \in {"page", "context"}
            => (item.is_full_content
                   <=> (pq.query_is_question /\ pq.model_info.present))

\* a question without model_info has returned its page as a summary
C22_Witness ==
    /\ pq.pc = "return"
    /\ pq.query_is_question
    /\ ~pq.model_info.present
    /\ Len(pq.result.summaries) = 1
    /\ pq.result.summaries[1].origin = "page"
    /\ ~pq.result.summaries[1].is_full_content

\* a step of the HTML-analysis or of the direct-question branch that made
\* its LLM call
SpecialCall ==
    /\ pq.pc \in {"html", "direct"}
    /\ Len(pq'.attempts) = Len(pq.attempts) + 1

\* a special branch has failed and the normal path is not finished
SpecialFailed ==
    /\ pq.pc \in {"contexts", "direct", "normal"}
    /\ pq.attempts # <<>>
    /\ LastAttempt(pq).outcome # "ok"

\* C23: the HTML-analysis and direct-question branches are terminal on
\* success (the answer is returned at once, with no fetch and no search
\* made) and fall through on failure: process_query goes on into the
\* normal path and still returns a result.
C23_TerminalOrFallThrough ==
    /\ [][SpecialCall =>
             IF LastAttempt(pq').outcome = "ok"
             THEN /\ pq'.pc = "return"
                  /\ pq'.result.success
                  /\ pq'.result.consolidated_summary = "answer"
                  /\ Consulted(calls') = <<>>
             ELSE pq'.pc = (IF pq.pc = "html" THEN "contexts"
                            ELSE "normal")]_vars
    /\ SpecialFailed ~> (pq.pc = "return" /\ pq.result.success)

\* the HTML analysis failed, the direct answer failed as well, and the
\* normal path has returned a result
C23_Witness ==
    /\ pq.pc = "return"
    /\ pq.result.success
    /\ Len(pq.attempts) = 3
    /\ pq.attempts[1].prompt = "html_analysis"
    /\ pq.attempts[1].outcome = "error"
    /\ pq.attempts[2].outcome = "error"

(***************************************************************************)
(* Claims about the query classifiers (checked under SpecClassify).        *)
(***************************************************************************)
\* C24: _is_comparison_query returns true exactly when one of its four
\* checks matches (a whitespace token among the comparison words, a
\* comparison phrase as a substring, "X or Y", or "between X and Y" /
\* "X and Y are"); so it is true for "What is the difference between A and
\* B?" and false for "Summarize this article".
C24_ComparisonIffACheckMatches ==
    tx_pc = "done" =>
        LET query_lower == lower(tx_query)
        IN  /\ tx_out.comparison <=>
                   \/ word_check(query_lower)
                   \/ phrase_check(query_lower)
                   \/ or_pattern(query_lower)
                   \/ between_pattern(query_lower)
                   \/ listing_pattern(query_lower)
            /\ tx_query = Q_Difference => tx_out.comparison
            /\ tx_query = Q_Article => ~tx_out.comparison

\* a query that only the last of the four checks recognises was classified
C24_Witness ==
    /\ tx_pc = "done"
    /\ tx_out.comparison
    /\ ~word_check(lower(tx_query))
    /\ ~phrase_check(lower(tx_query))
    /\ ~or_pattern(lower(tx_query))

\* the query carries the DIRECT QUESTION: marker
HasMarker(query) ==
    \E i \in 1 .. Len(query) : at(query, i, DirectMarker)

\* the last character of the query that is not whitespace is a question mark
EndsWithQuestionMark(query) ==
    \E i \in 1 .. Len(query) :
       query[i] = "?" /\ \A j \in i + 1 .. Len(query) : isspace(query[j])

\* one of the query's whitespace-delimited tokens, lowercased, is an
\* interrogative word
HasQuestionWord(query) ==
    LET tokens == split(query)
    IN  \E i \in 1 .. Len(tokens) : lower(tokens[i]) \in question_words

\* C25: for a query that is not a URL, is_question returns true exactly when
\* the query carries the DIRECT QUESTION: marker, or ends with "?" after
\* trimming, or has a whitespace-delimited token that, lowercased, is one of
\* the interrogative words.
C25_QuestionIffMarkedOrWorded ==
    (tx_pc # "question" /\ ~is_url_literal(tx_query)) =>
        (tx_out.question <=> \/ HasMarker(tx_query)
                             \/ EndsWithQuestionMark(tx_query)
                             \/ HasQuestionWord(tx_query))

\* a query found to be a question only through a capitalised interrogative
\* word
C25_Witness ==
    /\ tx_pc = "done"
    /\ tx_out.question
    /\ ~HasMarker(tx_query)
    /\ ~EndsWithQuestionMark(tx_query)
    /\ \A i \in 1 .. Len(split(tx_query)) :
          split(tx_query)[i] \notin question_words

(***************************************************************************)
(* Claims about the ranking of summarize_text (checked under               *)
(* SpecSummarize).                                                         *)
(***************************************************************************)
\* the score of sentence i of the text handed to summarize_text; a sentence
\* without a counted word has no entry in sentence_scores and scores nothing
SmScore(i) ==
    LET freq   == FreqDist(ContentWords(Flatten(sm_text.sents)))
        scores == sentence_scores(sm_text.sents, freq)
    IN  IF i \in DOMAIN scores THEN scores[i] ELSE 0

\* the positions of the sentences in the summary
SmSelected == {sm_out.idx[k] : k \in 1 .. Len(sm_out.idx)}

\* C26: when summarize_text compresses, the sentences it selects are the
\* top-scoring ones: no sentence left out scores strictly higher than a
\* selected one, and of two sentences with equal scores the earlier one is
\* selected in preference to the later one.
C26_TopScoringEarlierOnTies ==
    SmCompressed =>
        \A s \in SmSelected :
           \A u \in (1 .. Len(sm_text.sents)) \ SmSelected :
              /\ SmScore(u) <= SmScore(s)
              /\ SmScore(u) = SmScore(s) => s < u

\* compression left out a sentence that scores as much as a selected one,
\* and selected a sentence that stands after a lower-scoring one left out
C26_Witness ==
    /\ SmCompressed
    /\ \E s \in SmSelected :
          \E u \in (1 .. Len(sm_text.sents)) \ SmSelected :
             SmScore(u) = SmScore(s) /\ SmScore(s) > 0
    /\ \E s \in SmSelected :
          \E u \in (1 .. Len(sm_text.sents)) \ SmSelected :
             u < s /\ SmScore(u) < SmScore(s)

(***************************************************************************)
(* Further claims about the prompt builders (checked under SpecAssemble).  *)
(***************************************************************************)
\* C27: when create_question_answer is given no full-content item, the
\* content text it writes for each summarized source has at most 500
\* characters, whatever the length of the summary.
C27_SummarizedContentCapped ==
    (SourcesWritten /\ ~has_full_content(as_in.summaries)) =>
        \A i \in 1 .. Len(as_st.contents) :
           as_st.contents[i] <= SummaryCharCap

(***************************************************************************)
(* Further claims about process_query (checked under SpecQuery).           *)
(***************************************************************************)
\* the calls of get_google_search_results in the log
Searches(log) == SelectSeq(log, LAMBDA c : c.op = "search")

\* C28: within one invocation of process_query get_google_search_results is
\* called at most once, and only when no usable page_content dict and no
\* URLs were supplied and the evidence list is still empty; in particular
\* never after a direct-question answer that had evidence has failed.
C28_SearchOnceAndLast ==
    /\ [](Len(Searches(calls)) <= 1)
    /\ [][Len(Searches(calls')) > Len(Searches(calls)) =>
             /\ ~pq.page_content.present
             /\ pq.provided_urls = <<>>
             /\ pq.summaries = <<>>
             /\ \A k \in DOMAIN pq.attempts :
                   pq.attempts[k].evidence = <<>>]_vars
    /\ [][(pq.summaries # <<>> /\ pq.attempts # <<>>) =>
             Searches(calls') = Searches(calls)]_vars

\* one search was made for a question, its pages were answered from and the
\* answer was returned
C28_Witness ==
    /\ pq.pc = "return"
    /\ Len(Searches(calls)) = 1
    /\ pq.query_is_question
    /\ Len(pq.attempts) = 1
    /\ pq.attempts[1].evidence # <<>>
    /\ pq.attempts[1].outcome = "ok"

\* the evidence list holds full-content items and summarized ones
MixedEvidence(summaries) ==
    /\ \E i \in DOMAIN summaries : summaries[i].is_full_content
    /\ \E i \in DOMAIN summaries : ~summaries[i].is_full_content

\* C29: when the evidence list handed to create_question_answer mixes
\* full-content and summarized items, only the full-content items are
\* written into the sources section, the summarized ones being left out,
\* while the summaries field of the result returned still holds every item,
\* unchanged and in order.
C29_OnlyFullWrittenAllReturned ==
    (as_in.kind = "qa" /\ MixedEvidence(as_in.summaries)) =>
        /\ SourcesWritten =>
              /\ Len(as_st.contents) = Len(as_in.summaries)
              /\ \A i \in DOMAIN as_in.summaries :
                    (as_st.contents[i] >= 0)
                        <=> as_in.summaries[i].is_full_content
        /\ as_pc = "done" => as_result.summaries = as_in.summaries

\* a summarized item followed by a full-content one: the first was left out
\* of the prompt, and both came back in the result
C29_Witness ==
    /\ as_pc = "done"
    /\ as_in.kind = "qa"
    /\ Len(as_in.summaries) = 2
    /\ ~as_in.summaries[1].is_full_content
    /\ as_in.summaries[2].is_full_content
    /\ as_st.contents[1] < 0
    /\ as_result.summaries = as_in.summaries

\* a page_content dict was supplied whose body is too short to be used, and
\* the additional contexts give no evidence
ShortPageOnly(frame) ==
    /\ frame.pc \notin {"idle", "classify"}
    /\ frame.page_content.present
    /\ page_body(frame.page_content) <= MinPageBody
    /\ context_evidence(frame) = <<>>

\* C30: when a page_content dict is supplied but its body is skipped for
\* being too short (at most 200 characters) and no additional context gave
\* evidence, process_query consults neither the provided URLs nor the search
\* provider: the evidence list stays empty and the zero-evidence branch is
\* taken.
C30_ShortPageEndsCollection ==
    /\ [](ShortPageOnly(pq) =>
             /\ Consulted(calls) = <<>>
             /\ pq.summaries = <<>>
             /\ pq.pc # "urls")
    /\ [][(ShortPageOnly(pq) /\ pq.pc = "normal") =>
             (pq'.pc = "collected" /\ pq'.summaries = <<>>)]_vars
    /\ [][(ShortPageOnly(pq) /\ pq.pc = "collected") =>
             ZeroEvidenceStep]_vars
    /\ [](ShortPageOnly(pq) /\ pq.pc = "return" /\ pq.result.success =>
             pq.result.summaries = <<>>)

\* a short page came with URLs to use: none was fetched, nothing was
\* searched for, and the default message was returned
C30_Witness ==
    /\ ShortPageOnly(pq)
    /\ pq.pc = "return"
    /\ pq.provided_urls # <<>>
    /\ page_body(pq.page_content) > 0
    /\ calls = <<>>
    /\ pq.result.consolidated_summary = "no_relevant_information"

=============================================================================
